---- MODULE Spec2Model ----
(***************************************************************************)
(* Model of the flight-route tracking engine (class Route, route.cpp):     *)
(* the ordered leg list with its parallel flight plan entry list, the      *)
(* procedure splicing operations, the active-leg tracking and the distance *)
(* queries.                                                                *)
(*                                                                         *)
(* Geometry.  The geometry library (atools::geo) is not part of the        *)
(* repository.  It is modelled on a flat plane in integer meters: every    *)
(* leg position lies on the x axis, an aircraft position is a point        *)
(* [x, y].  Distances are Euclidean, rounded down to a whole meter.        *)
(***************************************************************************)
EXTENDS Integers, Sequences, FiniteSets, TLC

VARIABLES
  legs,                \* QList<RouteLeg>: the leg sequence of the route
  entries,             \* flightplan.getEntries(): parallel entry list
  departureLegs,       \* stored departure (SID) procedure
  starLegs,            \* stored STAR procedure
  arrivalLegs,         \* stored arrival procedure: transition and approach
  departureLegsOffset,
  starLegsOffset,
  arrivalLegsOffset,
  totalDistance,       \* meters
  activeLeg,
  activeLegResult,     \* atools::geo::LineDistance
  activePos,           \* maptypes::PosCourse
  shownMissed,         \* shownTypes & PROCEDURE_MISSED
  boundingRect,        \* <<west, east>> of the leg positions
  trueCourse,          \* no leg carries a magnetic variation
  lastOp,              \* history: the last operation, its argument and result
  hist,                \* history: snapshot taken by the last splice
  other                \* a second Route object, the argument of Route::copy

vars == <<legs, entries, departureLegs, starLegs, arrivalLegs,
          departureLegsOffset, starLegsOffset, arrivalLegsOffset,
          totalDistance, activeLeg, activeLegResult, activePos, shownMissed,
          boundingRect, trueCourse, lastOp, hist, other>>

routeVars == <<legs, entries, departureLegs, starLegs, arrivalLegs,
               departureLegsOffset, starLegsOffset, arrivalLegsOffset,
               totalDistance, boundingRect, trueCourse>>

activeVars == <<activeLeg, activeLegResult, activePos>>

----------------------------------------------------------------------------
(* Bounds *)

\* Largest number of en-route waypoints between origin and destination.
MaxWpt == 1

----------------------------------------------------------------------------
(* Sentinels (maptypes.h) *)

\* std::numeric_limits<int>::max()
INVALID_INDEX_VALUE == 2147483647

\* std::numeric_limits<float>::max(), here the largest distance in meters
INVALID_DISTANCE_VALUE == 2000000000

----------------------------------------------------------------------------
(* Small helpers *)

Abs(x) == IF x < 0 THEN -x ELSE x

Max2(a, b) == IF a > b THEN a ELSE b

\* QList::insert(i, v) with a 0-based index: i <= 0 prepends, i >= size appends.
QListInsert(s, i, v) ==
  LET k == IF i <= 0 THEN 0 ELSE IF i >= Len(s) THEN Len(s) ELSE i
  IN  SubSeq(s, 1, k) \o <<v>> \o SubSeq(s, k + 1, Len(s))

\* QList::removeAt(i) with a 0-based index; out of range indexes are ignored.
QListRemoveAt(s, i) ==
  IF i < 0 \/ i >= Len(s) THEN s
  ELSE SubSeq(s, 1, i) \o SubSeq(s, i + 2, Len(s))

\* atools::geo::nmToMeter for hundredths of a nautical mile
nmToMeter(hundredths) == (hundredths * 1852) \div 100

\* The integer square root of n by bisection of lo..hi
RECURSIVE ISqrtIn(_, _, _)
ISqrtIn(n, lo, hi) ==
  IF lo >= hi THEN lo
  ELSE CHOOSE r \in {IF mid * mid <= n THEN ISqrtIn(n, mid, hi) ELSE ISqrtIn(n, lo, mid - 1) :
                       mid \in {(lo + hi + 1) \div 2}} : TRUE

\* The root of a * a + b * b lies between the larger of a, b and their sum
ISqrtSum(a, b) == ISqrtIn(a * a + b * b, Max2(a, b), a + b)

\* Euclidean length of (dx, dy) in meters; beyond 30 km computed in units of
\* 100 m to stay within the integer range.
Hypot(dx, dy) ==
  IF dy = 0 THEN Abs(dx)
  ELSE IF dx = 0 THEN Abs(dy)
  ELSE IF Max2(Abs(dx), Abs(dy)) <= 30000 THEN ISqrtSum(Abs(dx), Abs(dy))
  ELSE 100 * ISqrtSum(Abs(dx) \div 100, Abs(dy) \div 100)

----------------------------------------------------------------------------
(* The navigation data the route is built from.  A leg is identified by     *)
(* the id of the flight plan entry or procedure leg it was created from;    *)
(* the immutable attributes of a leg are functions of that id.              *)

OriginId == 1
DestId == 9
WptIds == 2..(1 + MaxWpt)
SidIds == {11, 12}
StarIds == {21, 22}
TransIds == {31, 32}
ApprIds == 41..50
MissedIds == {51}

\* RouteLeg::isRoute, isSid, isStar, isTransition, isApproach, isMissed
isRoute(id) == id <= DestId
isSid(id) == id \in SidIds
isStar(id) == id \in StarIds
isTransition(id) == id \in TransIds
isApproach(id) == id \in ApprIds
isMissed(id) == id \in MissedIds
isAnyProcedure(id) == ~isRoute(id)

\* RouteLeg::getMapObjectType
getMapObjectType(id) ==
  IF id \in {OriginId, DestId} THEN "AIRPORT"
  ELSE IF isRoute(id) THEN "WAYPOINT"
  ELSE "PROCEDURE"

\* RouteLeg::getPosition: x coordinate in meters (y is 0 for every leg)
PosX(id) ==
  CASE id = OriginId -> 0
    [] id = DestId -> 36000
    [] id \in 2..8 -> 4000 * (id - 1)
    [] id = 11 -> 1000
    [] id = 12 -> 2000
    [] id = 21 -> 20000
    [] id = 22 -> 22000
    [] id = 31 -> 24000
    [] id = 32 -> 26000
    [] id = 41 -> 26000
    [] id = 42 -> 26000
    [] id = 43 -> 29000
    [] id = 44 -> 34000
    [] id = 45 -> 29000
    [] id = 46 -> 30000
    [] id = 47 -> 30000
    [] id = 48 -> 34000
    [] id = 49 -> 30000
    [] id = 50 -> 29000
    [] id = 51 -> 40000

\* MapProcedureLeg::type
getApproachLegType(id) ==
  CASE id \in {31, 41, 46, 47, 49} -> "INITIAL_FIX"
    [] id \in {42, 45, 50} -> "HOLD_TO_FIX"
    [] id = 43 -> "PROCEDURE_TURN"
    [] isAnyProcedure(id) -> "TRACK_TO_FIX"
    [] OTHER -> "INVALID_LEG_TYPE"

\* RouteLeg::isHold
isHold(id) == getApproachLegType(id) = "HOLD_TO_FIX"

\* RouteLeg::isApproachPoint: a procedure leg that is a point and no hold
isApproachPoint(id) ==
  isAnyProcedure(id) /\ ~isHold(id) /\ getApproachLegType(id) = "INITIAL_FIX"

\* MapProcedureLeg::line.getPos1(): where the procedure leg starts; a leg that
\* is no procedure leg has a default constructed, invalid line.
NoPosX == -1000000

LinePos1X(id) ==
  CASE id = 11 -> 0
    [] id = 12 -> 1000
    [] id = 21 -> 20000
    [] id = 22 -> 20000
    [] id = 31 -> 24000
    [] id = 32 -> 24000
    [] id = 41 -> 26000
    [] id = 42 -> 26000
    [] id = 43 -> 26000
    [] id = 44 -> 29000
    [] id = 45 -> 29000
    [] id = 46 -> 30000
    [] id = 47 -> 30000
    [] id = 48 -> 30000
    [] id = 49 -> 30000
    [] id = 50 -> 29000
    [] id = 51 -> 34000
    [] OTHER -> NoPosX

\* MapProcedureLeg::holdLine: helping line of a hold, <<x1, x2>>
HoldLine(id) ==
  CASE id = 42 -> <<26000, 23000>>
    [] id = 45 -> <<29000, 32000>>
    [] id = 50 -> <<29000, 32000>>
    [] OTHER -> <<PosX(id), PosX(id)>>

\* MapProcedureLeg::turnDirection
turnDirection(id) == IF id = 45 THEN "R" ELSE IF id \in {42, 50} THEN "L" ELSE ""

\* MapProcedureLeg::calculatedDistance, meters
calculatedDistance(id) == IF isAnyProcedure(id) THEN Abs(PosX(id) - LinePos1X(id)) ELSE 0

\* The procedures the database offers for the airports of the route.
DepartureCatalog == {<<>>, <<11, 12>>}

StarCatalog == {<<>>, <<21, 22>>}

NoArrival == [trans |-> <<>>, appr |-> <<>>]

ArrivalCatalog ==
  { NoArrival,
    [trans |-> <<>>, appr |-> <<44, 51>>],
    [trans |-> <<31, 32>>, appr |-> <<41, 42, 43, 44, 51>>],
    [trans |-> <<>>, appr |-> <<45, 46, 47, 48, 51>>] }

\* MapProcedureLegs::size, isEmpty, at: transition legs come first
ProcSize(p) == Len(p.trans) + Len(p.appr)
ProcIsEmpty(p) == ProcSize(p) = 0
ProcAt(p, i) == IF i < Len(p.trans) THEN p.trans[i + 1] ELSE p.appr[i - Len(p.trans) + 1]

\* The plain flight plans: empty, origin only, or origin, waypoints and an
\* optional destination airport.
Wpts(n) == [i \in 1..n |-> i + 1]

PlainRoutes ==
  {<<>>} \cup {<<OriginId>> \o Wpts(n) : n \in 0..MaxWpt}
         \cup {<<OriginId>> \o Wpts(n) \o <<DestId>> : n \in 0..MaxWpt}

----------------------------------------------------------------------------
(* Route legs and the recompute pass *)

\* The missing predecessor (nullptr) of RouteLeg::updateDistanceAndCourse
NoLeg == [id |-> 0, index |-> 0, distTo |-> 0, flightplan |-> "none"]

\* RouteLeg::updateDistanceAndCourse: distance from the previous leg's
\* position to this leg's position, zero for the first leg.
updateDistanceAndCourse(leg, last) ==
  [leg EXCEPT !.distTo = IF last = NoLeg THEN 0 ELSE Abs(PosX(leg.id) - PosX(last.id))]

\* RouteLeg::createFromApproachLeg(entryIndex, legs, prevLeg)
createFromApproachLeg(entryIndex, id, prevLeg) ==
  updateDistanceAndCourse([id |-> id, index |-> entryIndex, distTo |-> 0, flightplan |-> "this"],
                          prevLeg)

\* FlightplanEntryBuilder::buildFlightplanEntry: the entry of a procedure leg
buildFlightplanEntry(id) == id

\* Route::hasDepartureProcedure, hasStarProcedure, hasArrivalProcedure,
\* hasTransitionProcedure (route.h)
hasDepartureProcedure(dep) == dep # <<>>
hasStarProcedure(star) == star # <<>>
hasArrivalProcedure(arr) == arr.appr # <<>>
hasTransitionProcedure(arr) == arr.trans # <<>>

\* Route::updateIndices
updateIndices(ls) == [i \in 1..Len(ls) |-> [ls[i] EXCEPT !.index = i - 1]]

\* Route::isAirportAfterArrival(index), 0-based index
isAirportAfterArrival(ls, star, arr, index) ==
  /\ (hasArrivalProcedure(arr) \/ hasStarProcedure(star))
  /\ index = Len(ls) - 1
  /\ getMapObjectType(ls[index + 1].id) = "AIRPORT"

\* The summation with the test for missed approach legs left out
AddAlways(total, leg) == total + leg.distTo

\* The summation step of Route::updateDistancesAndCourse
AddUnlessMissed(total, leg) == IF ~isMissed(leg.id) THEN total + leg.distTo ELSE total

\* Route::updateDistancesAndCourse: the loop from 0-based index i on, with the
\* running total and the previously updated leg.
RECURSIVE updateDistancesLoop(_, _, _, _, _, _)
updateDistancesLoop(ls, star, arr, i, total, last) ==
  IF i >= Len(ls) THEN [legs |-> ls, totalDistance |-> total]
  ELSE IF isAirportAfterArrival(ls, star, arr, i) THEN [legs |-> ls, totalDistance |-> total]
  ELSE LET mapobj == updateDistanceAndCourse(ls[i + 1], last)
       IN  updateDistancesLoop([ls EXCEPT ![i + 1] = mapobj], star, arr, i + 1,
                               AddUnlessMissed(total, mapobj), mapobj)

updateDistancesAndCourse(ls, star, arr) == updateDistancesLoop(ls, star, arr, 0, 0, NoLeg)

\* Route::updateMagvar: true course is used when no leg is a navaid or airport
\* carrying a magnetic variation.
updateMagvar(ls) == \A i \in 1..Len(ls) : getMapObjectType(ls[i].id) = "PROCEDURE"

\* Route::updateBoundingRect
updateBoundingRect(ls) ==
  IF ls = <<>> THEN <<0, 0>>
  ELSE LET xs == {PosX(ls[i].id) : i \in 1..Len(ls)}
       IN  <<CHOOSE a \in xs : \A b \in xs : a <= b, CHOOSE a \in xs : \A b \in xs : a >= b>>

\* Route::updateAll: the new legs, total distance, bounding rect, course mode
updateAll(ls, star, arr) ==
  LET d == updateDistancesAndCourse(updateIndices(ls), star, arr)
  IN  [legs |-> d.legs, totalDistance |-> d.totalDistance,
       boundingRect |-> updateBoundingRect(d.legs), trueCourse |-> updateMagvar(d.legs)]

----------------------------------------------------------------------------
(* Procedure splicing *)

PROCEDURE_ARRIVAL == {"TRANSITION", "APPROACH", "MISSED"}
PROCEDURE_TRANSITION == {"TRANSITION"}
PROCEDURE_STAR == {"STAR"}
PROCEDURE_DEPARTURE == {"SID"}
PROCEDURE_ALL == PROCEDURE_ARRIVAL \cup PROCEDURE_STAR \cup PROCEDURE_DEPARTURE

\* The scan condition with the missed approach legs forgotten
eraseMatchesWithoutMissed(type, id) ==
  \/ ("APPROACH" \in type /\ isApproach(id))
  \/ ("TRANSITION" \in type /\ isTransition(id))
  \/ ("SID" \in type /\ isSid(id))
  \/ ("STAR" \in type /\ isStar(id))

\* The condition of the scan in Route::eraseProcedureLegs
eraseMatches(type, id) ==
  \/ ("APPROACH" \in type /\ isApproach(id))
  \/ ("MISSED" \in type /\ isMissed(id))
  \/ ("TRANSITION" \in type /\ isTransition(id))
  \/ ("SID" \in type /\ isSid(id))
  \/ ("STAR" \in type /\ isStar(id))

\* The scan of Route::eraseProcedureLegs from 0-based index i down to 0
RECURSIVE eraseIndexes(_, _, _)
eraseIndexes(ls, type, i) ==
  IF i < 0 THEN <<>>
  ELSE (IF eraseMatches(type, ls[i + 1].id) THEN <<i>> ELSE <<>>) \o eraseIndexes(ls, type, i - 1)

\* The removal loop of Route::eraseProcedureLegs on the pair of lists
RECURSIVE eraseLoop(_, _)
eraseLoop(r, indexes) ==
  IF indexes = <<>> THEN r
  ELSE eraseLoop([legs |-> QListRemoveAt(r.legs, Head(indexes)),
                  entries |-> QListRemoveAt(r.entries, Head(indexes))], Tail(indexes))

\* An erase that removes at the collected indexes from the lowest to the highest
eraseProcedureLegsAscending(ls, es, type) ==
  eraseLoop([legs |-> ls, entries |-> es], LET idx == eraseIndexes(ls, type, Len(ls) - 1)
            IN [k \in 1..Len(idx) |-> idx[Len(idx) + 1 - k]])

\* An erase that removes nothing
eraseProcedureLegsNone(ls, es, type) == [legs |-> ls, entries |-> es]

\* Route::eraseProcedureLegs
eraseProcedureLegs(ls, es, type) ==
  eraseLoop([legs |-> ls, entries |-> es], eraseIndexes(ls, type, Len(ls) - 1))

\* The departure loop with every leg inserted at index 1
RECURSIVE insertDepartureAtOne(_, _, _)
insertDepartureAtOne(r, dep, i) ==
  IF i >= Len(dep) THEN r
  ELSE LET prev == IF i < Len(r.legs) THEN r.legs[i + 1] ELSE NoLeg
           obj == createFromApproachLeg(i, dep[i + 1], prev)
           entry == buildFlightplanEntry(dep[i + 1])
       IN  insertDepartureAtOne([legs |-> QListInsert(r.legs, 1, obj),
                                 entries |-> QListInsert(r.entries, 1, entry)], dep, i + 1)

\* First loop of Route::updateProcedureLegs: departure legs after the origin
RECURSIVE insertDeparture(_, _, _)
insertDeparture(r, dep, i) ==
  IF i >= Len(dep) THEN r
  ELSE LET insertIndex == 1 + i
           prev == IF i < Len(r.legs) THEN r.legs[i + 1] ELSE NoLeg
           obj == createFromApproachLeg(i, dep[i + 1], prev)
           entry == buildFlightplanEntry(dep[(insertIndex - 1) + 1])
       IN  insertDeparture([legs |-> QListInsert(r.legs, insertIndex, obj),
                            entries |-> QListInsert(r.entries, insertIndex, entry)], dep, i + 1)

\* The loop with the entry inserted at entries.size() instead of before the
\* last entry
RECURSIVE insertBeforeLastEntryAppended(_, _, _)
insertBeforeLastEntryAppended(r, proc, i) ==
  IF i >= Len(proc) THEN r
  ELSE LET prev == IF Len(r.legs) >= 2 THEN r.legs[Len(r.legs) - 1] ELSE NoLeg
           obj == createFromApproachLeg(i, proc[i + 1], prev)
           entry == buildFlightplanEntry(proc[i + 1])
       IN  insertBeforeLastEntryAppended(
             [legs |-> QListInsert(r.legs, Len(r.legs) - 1, obj),
              entries |-> QListInsert(r.entries, Len(r.entries), entry)], proc, i + 1)

\* Second and third loop of Route::updateProcedureLegs: the legs of a
\* procedure (a sequence of ids) before the last leg
RECURSIVE insertBeforeLast(_, _, _)
insertBeforeLast(r, proc, i) ==
  IF i >= Len(proc) THEN r
  ELSE LET prev == IF Len(r.legs) >= 2 THEN r.legs[Len(r.legs) - 1] ELSE NoLeg
           obj == createFromApproachLeg(i, proc[i + 1], prev)
           entry == buildFlightplanEntry(proc[i + 1])
       IN  insertBeforeLast([legs |-> QListInsert(r.legs, Len(r.legs) - 1, obj),
                             entries |-> QListInsert(r.entries, Len(r.entries) - 1, entry)],
                            proc, i + 1)

\* MapProcedureLegs as one sequence: at(0) .. at(size() - 1)
ProcSeq(p) == p.trans \o p.appr

\* updateProcedureLegs with the STAR and arrival offsets read after the loops
updateProcedureLegsLateOffsets(ls, es, dep, star, arr) ==
  LET r0 == eraseProcedureLegs(ls, es, PROCEDURE_ALL)
      r1 == insertDeparture(r0, dep, 0)
      r2 == insertBeforeLast(r1, star, 0)
      r3 == insertBeforeLast(r2, ProcSeq(arr), 0)
  IN  [legs |-> r3.legs, entries |-> r3.entries,
       departureLegsOffset |-> IF dep # <<>> THEN 1 ELSE INVALID_INDEX_VALUE,
       starLegsOffset |-> IF star # <<>> THEN Len(r2.legs) - 1 ELSE INVALID_INDEX_VALUE,
       arrivalLegsOffset |-> IF ~ProcIsEmpty(arr) THEN Len(r3.legs) - 1 ELSE INVALID_INDEX_VALUE]

\* Route::updateProcedureLegs: legs, entries and the three offsets
updateProcedureLegs(ls, es, dep, star, arr) ==
  LET r0 == eraseProcedureLegs(ls, es, PROCEDURE_ALL)
      r1 == insertDeparture(r0, dep, 0)
      r2 == insertBeforeLast(r1, star, 0)
      r3 == insertBeforeLast(r2, ProcSeq(arr), 0)
  IN  [legs |-> r3.legs, entries |-> r3.entries,
       departureLegsOffset |-> IF dep # <<>> THEN 1 ELSE INVALID_INDEX_VALUE,
       starLegsOffset |-> IF star # <<>> THEN Len(r1.legs) - 1 ELSE INVALID_INDEX_VALUE,
       arrivalLegsOffset |-> IF ~ProcIsEmpty(arr) THEN Len(r2.legs) - 1 ELSE INVALID_INDEX_VALUE]

----------------------------------------------------------------------------
(* Geometry: atools::geo::Pos and LineDistance *)

\* maptypes::PosCourse(): the invalid position
InvalidPosCourse == [valid |-> FALSE, x |-> 0, y |-> 0, course |-> 0]

PosCourse(x, y, course) == [valid |-> TRUE, x |-> x, y |-> y, course |-> course]

\* The LineDistance that Route::resetActive stores
InvalidLineDistance ==
  [status |-> "INVALID", distance |-> INVALID_DISTANCE_VALUE,
   distanceFrom1 |-> INVALID_DISTANCE_VALUE, distanceFrom2 |-> INVALID_DISTANCE_VALUE]

Sign(x) == IF x < 0 THEN -1 ELSE 1

\* Pos::distanceMeterToLine(pos1, pos2, result) for a line from (x1, 0) to
\* (x2, 0): the cross track distance (positive to the right of the line) when
\* the position is abeam the line, the distance to the nearer end otherwise.
distanceMeterToLine(p, x1, x2) ==
  IF ~p.valid THEN InvalidLineDistance
  ELSE LET from1 == Hypot(p.x - x1, p.y)
           from2 == Hypot(p.x - x2, p.y)
           dir == Sign(x2 - x1)
           along == (p.x - x1) * dir
           cross == -(p.y * dir)
       IN  IF x1 = x2
           THEN [status |-> "ALONG_TRACK", distance |-> from1,
                 distanceFrom1 |-> from1, distanceFrom2 |-> from2]
           ELSE IF along < 0
           THEN [status |-> "BEFORE_START", distance |-> Sign(cross) * from1,
                 distanceFrom1 |-> from1, distanceFrom2 |-> from2]
           ELSE IF along > Abs(x2 - x1)
           THEN [status |-> "AFTER_END", distance |-> Sign(cross) * from2,
                 distanceFrom1 |-> from1, distanceFrom2 |-> from2]
           ELSE [status |-> "ALONG_TRACK", distance |-> cross,
                 distanceFrom1 |-> from1, distanceFrom2 |-> from2]

\* normalizeCourse(pos1.angleDegTo(pos2)) for two points of the x axis
angleDegTo(x1, x2) == IF x2 > x1 THEN 90 ELSE IF x2 < x1 THEN 270 ELSE 0

\* Route::getPositionAt(i), 0-based
getPositionAt(ls, i) == PosX(ls[i + 1].id)

----------------------------------------------------------------------------
(* Active leg tracking *)

\* Route::resetActive
resetActive ==
  [activeLeg |-> INVALID_INDEX_VALUE, activeLegResult |-> InvalidLineDistance,
   activePos |-> InvalidPosCourse]

\* No second Route object
NoRoute ==
  [exists |-> FALSE, legs |-> <<>>, entries |-> <<>>, totalDistance |-> 0,
   shownMissed |-> TRUE, boundingRect |-> <<0, 0>>, activePos |-> InvalidPosCourse,
   trueCourse |-> FALSE, arrivalLegs |-> [trans |-> <<>>, appr |-> <<>>], starLegs |-> <<>>,
   departureLegs |-> <<>>, activeLeg |-> INVALID_INDEX_VALUE,
   activeLegResult |-> InvalidLineDistance, departureLegsOffset |-> INVALID_INDEX_VALUE,
   starLegsOffset |-> INVALID_INDEX_VALUE, arrivalLegsOffset |-> INVALID_INDEX_VALUE]

\* RouteLeg::setFlightplan for every leg of a list
setFlightplan(ls, fp) == [i \in 1..Len(ls) |-> [ls[i] EXCEPT !.flightplan = fp]]

\* Route::copy without the loop that updates the flight plan pointers
copyKeepingPointers(o) ==
  [legs |-> o.legs, entries |-> o.entries, totalDistance |-> o.totalDistance,
   shownMissed |-> o.shownMissed, boundingRect |-> o.boundingRect, activePos |-> o.activePos,
   trueCourse |-> o.trueCourse, arrivalLegs |-> o.arrivalLegs, starLegs |-> o.starLegs,
   departureLegs |-> o.departureLegs]

\* Route::copy(other): the members that are assigned; the legs are appended
\* as they are in the other route and then bound to the flight plan of this one.
copy(o) ==
  [legs |-> setFlightplan(o.legs, "this"), entries |-> o.entries,
   totalDistance |-> o.totalDistance, shownMissed |-> o.shownMissed,
   boundingRect |-> o.boundingRect, activePos |-> o.activePos, trueCourse |-> o.trueCourse,
   arrivalLegs |-> o.arrivalLegs, starLegs |-> o.starLegs, departureLegs |-> o.departureLegs]

\* Route::isSmaller
isSmaller(dist1, dist2, epsilon) == Abs(dist1.distance) < Abs(dist2.distance) + epsilon

\* The loop of Route::nearestAllLegIndex from segment i on
RECURSIVE nearestAllLoop(_, _, _, _)
nearestAllLoop(ls, pos, i, best) ==
  IF i >= Len(ls) THEN best
  ELSE LET result == distanceMeterToLine(pos, getPositionAt(ls, i - 1), getPositionAt(ls, i))
           distance == Abs(result.distance)
       IN  IF result.status # "INVALID" /\ distance < best.minDistance
           THEN nearestAllLoop(ls, pos, i + 1,
                  [minDistance |-> distance, cross |-> result.distance, index |-> i])
           ELSE nearestAllLoop(ls, pos, i + 1, best)

\* A search that never finds a leg
nearestAllLegIndexNone(ls, pos) ==
  [cross |-> INVALID_DISTANCE_VALUE, index |-> INVALID_INDEX_VALUE]

\* Route::nearestAllLegIndex: [cross, index]
nearestAllLegIndex(ls, pos) ==
  IF ~pos.valid THEN [cross |-> INVALID_DISTANCE_VALUE, index |-> INVALID_INDEX_VALUE]
  ELSE LET best == nearestAllLoop(ls, pos, 1,
                     [minDistance |-> INVALID_DISTANCE_VALUE,
                      cross |-> INVALID_DISTANCE_VALUE, index |-> INVALID_INDEX_VALUE])
       IN  IF best.cross < INVALID_DISTANCE_VALUE /\ Abs(best.cross) > nmToMeter(10000)
           THEN [cross |-> INVALID_DISTANCE_VALUE, index |-> INVALID_INDEX_VALUE]
           ELSE [cross |-> best.cross, index |-> best.index]

\* The loop of Route::nearestLegResult from 0-based index i on: segments that
\* start at a procedure leg are left out.
RECURSIVE nearestLegLoop(_, _, _, _)
nearestLegLoop(ls, pos, i, best) ==
  IF i >= Len(ls) THEN best
  ELSE IF isAnyProcedure(ls[i].id) THEN nearestLegLoop(ls, pos, i + 1, best)
  ELSE LET result == distanceMeterToLine(pos, getPositionAt(ls, i - 1), getPositionAt(ls, i))
       IN  IF result.status # "INVALID" /\ Abs(result.distance) < Abs(best.distance)
           THEN nearestLegLoop(ls, pos, i + 1,
                  [status |-> result.status, distance |-> result.distance, index |-> i])
           ELSE nearestLegLoop(ls, pos, i + 1, best)

\* What Route::nearestLegResult returns when it finds no leg
NoNearestLeg ==
  [status |-> "INVALID", distance |-> INVALID_DISTANCE_VALUE, index |-> INVALID_INDEX_VALUE]

\* A search over all segments, those of the procedures included
nearestLegResultAnyLeg(ls, pos) ==
  IF nearestAllLegIndex(ls, pos).index = INVALID_INDEX_VALUE THEN NoNearestLeg
  ELSE [status |-> distanceMeterToLine(pos,
                     getPositionAt(ls, nearestAllLegIndex(ls, pos).index - 1),
                     getPositionAt(ls, nearestAllLegIndex(ls, pos).index)).status,
        distance |-> nearestAllLegIndex(ls, pos).cross,
        index |-> nearestAllLegIndex(ls, pos).index]

\* Route::nearestLegResult: [status, distance, index]
nearestLegResult(ls, pos) ==
  IF ~pos.valid THEN NoNearestLeg
  ELSE nearestLegLoop(ls, pos, 1, NoNearestLeg)

\* The seeding without the test for a missing active leg
seedActiveLegAlways(ls, active, pos) == nearestAllLegIndex(ls, pos).index

\* The seeding with the test for a missing active leg inverted
seedActiveLegInverted(ls, active, pos) ==
  IF active # INVALID_INDEX_VALUE THEN nearestAllLegIndex(ls, pos).index ELSE active

\* The seeding of the active leg at the start of Route::updateActiveLegAndPos
seedActiveLeg(ls, active, pos) ==
  IF active = INVALID_INDEX_VALUE THEN nearestAllLegIndex(ls, pos).index ELSE active

\* The clamp of Route::updateActiveLegAndPos
clampActiveLeg(ls, active) == IF active >= Len(ls) THEN Len(ls) - 1 ELSE active

\* The skip over initial fixes behind a hold
RECURSIVE skipInitialFixes(_, _)
skipInitialFixes(ls, nextLeg) ==
  IF getApproachLegType(ls[nextLeg + 1].id) = "INITIAL_FIX" /\ nextLeg < Len(ls) - 2
  THEN skipInitialFixes(ls, nextLeg + 1)
  ELSE nextLeg

\* The candidate with the skip limited to two legs
candidateLegTwo(ls, active) ==
  IF isHold(ls[active + 1].id)
  THEN IF skipInitialFixes(ls, active + 1) > active + 3 THEN active + 3
       ELSE skipInitialFixes(ls, active + 1)
  ELSE active + 1

\* The candidate next leg
candidateLeg(ls, active) ==
  IF isHold(ls[active + 1].id) THEN skipInitialFixes(ls, active + 1) ELSE active + 1

\* courseDiff of Route::updateActiveLegAndPos
courseDifference(course, legCrs) ==
  LET d == (course - legCrs + 360) % 360
  IN  IF d > 180 THEN 360 - d ELSE d

\* The rule without the distance travelled into the next leg
holdSameRuleNoTravel(nextLegResult, courseDiff) ==
  /\ nextLegResult.status = "ALONG_TRACK"
  /\ Abs(nextLegResult.distance) < nmToMeter(50)
  /\ courseDiff < 25

\* Leaving a hold whose fix is the start of the next leg
holdSameRule(nextLegResult, courseDiff) ==
  /\ nextLegResult.status = "ALONG_TRACK"
  /\ Abs(nextLegResult.distance) < nmToMeter(50)
  /\ nextLegResult.distanceFrom1 > nmToMeter(75)
  /\ courseDiff < 25

\* The rule with the boundaries of the two turn directions exchanged
holdLineRuleSwapped(resultHold, turn) ==
  /\ resultHold.status = "ALONG_TRACK"
  /\ resultHold.distance < nmToMeter(IF turn = "R" THEN 50 ELSE -50)

\* Leaving a hold by its helping line
holdLineRule(resultHold, turn) ==
  /\ resultHold.status = "ALONG_TRACK"
  /\ resultHold.distance < nmToMeter(IF turn = "R" THEN -50 ELSE 50)

\* Entering a hold
holdEntryRule(nextLegResult) == Abs(nextLegResult.distance) < nmToMeter(50)

\* The rule with the margin subtracted from the distance of the active leg
procedureTurnRuleStrict(nextLegResult, activeResult, courseDiff) ==
  Abs(nextLegResult.distance) < Abs(activeResult.distance) - 100 /\ courseDiff < 45

\* Leaving a procedure turn
procedureTurnRule(nextLegResult, activeResult, courseDiff) ==
  isSmaller(nextLegResult, activeResult, 100) /\ courseDiff < 45

\* The rule with the margin subtracted from the distance of the active leg
plainLegRuleStrict(nextLegResult, activeResult, courseDiff) ==
  \/ activeResult.status = "AFTER_END"
  \/ (Abs(nextLegResult.distance) < Abs(activeResult.distance) - 10 /\ courseDiff < 90)

\* Leaving any other leg
plainLegRule(nextLegResult, activeResult, courseDiff) ==
  \/ activeResult.status = "AFTER_END"
  \/ (isSmaller(nextLegResult, activeResult, 10) /\ courseDiff < 90)

\* The decision with the procedure turn tested before the hold that follows
switchToNextLegTurnFirst(ls, active, nextLeg, pos, activeResult, nextLegResult, courseDiff) ==
  LET activeId == ls[active + 1].id
      nextId == ls[nextLeg + 1].id
  IN  IF isHold(activeId)
      THEN IF LinePos1X(nextId) = PosX(activeId)
           THEN holdSameRule(nextLegResult, courseDiff)
           ELSE holdLineRule(distanceMeterToLine(pos, HoldLine(activeId)[1], HoldLine(activeId)[2]),
                             turnDirection(activeId))
      ELSE IF getApproachLegType(activeId) = "PROCEDURE_TURN"
      THEN procedureTurnRule(nextLegResult, activeResult, courseDiff)
      ELSE IF isHold(nextId) THEN holdEntryRule(nextLegResult)
      ELSE plainLegRule(nextLegResult, activeResult, courseDiff)

\* switchToNextLeg of Route::updateActiveLegAndPos
switchToNextLeg(ls, active, nextLeg, pos, activeResult, nextLegResult, courseDiff) ==
  LET activeId == ls[active + 1].id
      nextId == ls[nextLeg + 1].id
  IN  IF isHold(activeId)
      THEN IF LinePos1X(nextId) = PosX(activeId)
           THEN holdSameRule(nextLegResult, courseDiff)
           ELSE holdLineRule(distanceMeterToLine(pos, HoldLine(activeId)[1], HoldLine(activeId)[2]),
                             turnDirection(activeId))
      ELSE IF isHold(nextId) THEN holdEntryRule(nextLegResult)
      ELSE IF getApproachLegType(activeId) = "PROCEDURE_TURN"
      THEN procedureTurnRule(nextLegResult, activeResult, courseDiff)
      ELSE plainLegRule(nextLegResult, activeResult, courseDiff)

\* A veto that never applies
missedVetoNever(shown, id) == FALSE

\* Do not track on missed approach legs that are not displayed
missedVeto(shown, id) == ~shown /\ isMissed(id)

\* The start without the special case of the point route
startLegNoPointRoute(ls, active, pos) ==
  IF clampActiveLeg(ls, seedActiveLeg(ls, active, pos)) = 0 THEN 1
  ELSE clampActiveLeg(ls, seedActiveLeg(ls, active, pos))

\* The active leg after the seeding, the clamp and the point route cases
startLeg(ls, active, pos) ==
  IF Len(ls) = 1 THEN 0
  ELSE IF clampActiveLeg(ls, seedActiveLeg(ls, active, pos)) = 0 THEN 1
  ELSE clampActiveLeg(ls, seedActiveLeg(ls, active, pos))

\* activeLegResult before the next leg is tested
startLegResult(ls, active, pos) ==
  IF Len(ls) = 1
  THEN distanceMeterToLine(pos, getPositionAt(ls, 0), getPositionAt(ls, 0))
  ELSE distanceMeterToLine(pos, getPositionAt(ls, active - 1), getPositionAt(ls, active))

\* The line distance of a position to the leg that ends at 0-based index i
legResult(ls, i, pos) ==
  distanceMeterToLine(pos, getPositionAt(ls, i - 1), getPositionAt(ls, i))

\* The course of the leg that ends at 0-based index i
legCourse(ls, i) == angleDegTo(getPositionAt(ls, i - 1), getPositionAt(ls, i))

\* The test that keeps the result of the leg the call started on
testNextLegStaleResult(ls, shown, active, nextLeg, pos) ==
  IF /\ switchToNextLeg(ls, active, nextLeg, pos, startLegResult(ls, active, pos),
                        legResult(ls, nextLeg, pos),
                        courseDifference(pos.course, legCourse(ls, nextLeg)))
     /\ ~missedVeto(shown, ls[nextLeg + 1].id)
  THEN [activeLeg |-> nextLeg, activeLegResult |-> startLegResult(ls, active, pos),
        activePos |-> pos]
  ELSE [activeLeg |-> active, activeLegResult |-> startLegResult(ls, active, pos),
        activePos |-> pos]

\* The test of the next leg in Route::updateActiveLegAndPos
testNextLeg(ls, shown, active, nextLeg, pos) ==
  IF /\ switchToNextLeg(ls, active, nextLeg, pos, startLegResult(ls, active, pos),
                        legResult(ls, nextLeg, pos),
                        courseDifference(pos.course, legCourse(ls, nextLeg)))
     /\ ~missedVeto(shown, ls[nextLeg + 1].id)
  THEN [activeLeg |-> nextLeg, activeLegResult |-> legResult(ls, nextLeg, pos),
        activePos |-> pos]
  ELSE [activeLeg |-> active, activeLegResult |-> startLegResult(ls, active, pos),
        activePos |-> pos]

\* Route::updateActiveLegAndPos from the seeded and clamped active leg on
advanceActiveLeg(ls, shown, active, pos) ==
  IF active + 1 < Len(ls)
  THEN testNextLeg(ls, shown, active, candidateLeg(ls, active), pos)
  ELSE [activeLeg |-> active, activeLegResult |-> startLegResult(ls, active, pos),
        activePos |-> pos]

\* The call without the test for an invalid position
updateActiveLegAndPosUnchecked(ls, shown, active, pos) ==
  IF ls = <<>> THEN resetActive
  ELSE advanceActiveLeg(ls, shown, startLeg(ls, active, pos), pos)

\* Route::updateActiveLegAndPos(pos): the new active leg, result and position
updateActiveLegAndPos(ls, shown, active, pos) ==
  IF ls = <<>> \/ ~pos.valid THEN resetActive
  ELSE advanceActiveLeg(ls, shown, startLeg(ls, active, pos), pos)

----------------------------------------------------------------------------
(* Distances along the route *)

\* MapProcedureLeg::geometry: the points of the line string of a procedure
\* leg; the procedure turn has a point between its ends.
getGeometry(id) ==
  IF id = 43 THEN <<26000, 27500, 29000>>
  ELSE IF isAnyProcedure(id) THEN <<LinePos1X(id), PosX(id)>>
  ELSE <<>>

\* LineString::distanceMeterToLineString for a line string that runs along
\* the x axis in one direction
distanceMeterToLineString(p, line) == distanceMeterToLine(p, line[1], line[Len(line)])

\* Pos::distanceMeterTo from (x, 0) to a position
distanceMeterTo(x, p) == Hypot(p.x - x, p.y)

\* geometryLeg != nullptr in Route::getRouteDistances
hasGeometryLeg(activeId) == isAnyProcedure(activeId) /\ Len(getGeometry(activeId)) > 2

\* *crossTrackDistance of Route::getRouteDistances
crossTrackDistance(activeId, pos, result) ==
  IF hasGeometryLeg(activeId)
  THEN IF distanceMeterToLineString(pos, getGeometry(activeId)).status = "ALONG_TRACK"
       THEN distanceMeterToLineString(pos, getGeometry(activeId)).distance
       ELSE INVALID_DISTANCE_VALUE
  ELSE IF result.status = "ALONG_TRACK" THEN result.distance
  ELSE INVALID_DISTANCE_VALUE

\* routeIndex of Route::getRouteDistances
clampRouteIndex(ls, active) == IF active >= Len(ls) THEN Len(ls) - 1 ELSE active

\* distToCur of Route::getRouteDistances
distToCur(ls, routeIndex, activeId, pos) ==
  IF ~isMissed(ls[routeIndex + 1].id) \/ isMissed(activeId)
  THEN IF hasGeometryLeg(activeId)
       THEN distanceMeterToLineString(pos, getGeometry(activeId)).distanceFrom2
       ELSE distanceMeterTo(getPositionAt(ls, routeIndex), pos)
  ELSE 0

\* The loop for *distFromStart from 0-based index i on: it ends at the first
\* missed approach leg unless the active leg is one.
RECURSIVE sumFromStart(_, _, _, _)
sumFromStart(ls, routeIndex, activeIsMissed, i) ==
  IF i > routeIndex THEN 0
  ELSE IF ~isMissed(ls[i + 1].id) \/ activeIsMissed
  THEN ls[i + 1].distTo + sumFromStart(ls, routeIndex, activeIsMissed, i + 1)
  ELSE 0

\* The loop for *distToDest from 0-based index i on
RECURSIVE sumToDest(_, _, _)
sumToDest(ls, activeIsMissed, i) ==
  IF i >= Len(ls) THEN 0
  ELSE (IF ~isMissed(ls[i + 1].id) \/ activeIsMissed THEN ls[i + 1].distTo ELSE 0)
         + sumToDest(ls, activeIsMissed, i + 1)

\* The values of the output parameters before the call
NotWritten ==
  [distFromStart |-> -1, distToDest |-> -1, nextLegDistance |-> -1, crossTrackDistance |-> -1]

\* The outputs of Route::getRouteDistances with an active leg; activeId is
\* the leg that at(activeLeg) yields.
routeDistances(ls, routeIndex, activeId, pos, result) ==
  [distFromStart |-> Abs(sumFromStart(ls, routeIndex, isMissed(activeId), 0)
                           - distToCur(ls, routeIndex, activeId, pos)),
   distToDest |-> Abs(sumToDest(ls, isMissed(activeId), routeIndex + 1)
                        + distToCur(ls, routeIndex, activeId, pos)),
   nextLegDistance |-> distToCur(ls, routeIndex, activeId, pos),
   crossTrackDistance |-> crossTrackDistance(activeId, pos, result)]

\* Route::getRouteDistances with all four output parameters given
getRouteDistances(ls, active, activeId, pos, result) ==
  IF active = INVALID_INDEX_VALUE THEN [ret |-> FALSE, out |-> NotWritten]
  ELSE [ret |-> TRUE,
        out |-> routeDistances(ls, clampRouteIndex(ls, active), activeId, pos, result)]

\* The legs that at(activeLeg) can yield: the leg of the index, or for an
\* index behind the end of the list whatever is found there, read as a plain
\* leg, a procedure leg or a missed approach leg.
activeLegRead(ls, active) ==
  IF active < Len(ls) THEN {ls[active + 1].id} ELSE {OriginId, 43, 51}

----------------------------------------------------------------------------
(* Position at a distance from the start *)

\* atools::geo::EMPTY_POS and the default constructed Pos
EMPTY_POS == [valid |-> FALSE, x |-> 0]

ValidPos(x) == [valid |-> TRUE, x |-> x]

\* The result of reading a leg behind the end of the list
OutOfBounds == [valid |-> FALSE, x |-> -1]

\* Pos::interpolate and LineString::interpolate with fraction base / dist
interpolate(x1, x2, base, dist) ==
  IF dist = 0 THEN EMPTY_POS ELSE ValidPos(x1 + ((x2 - x1) * base) \div dist)

\* The search loop of Route::positionAtDistance from 0-based index i on
RECURSIVE findLegLoop(_, _, _, _)
findLegLoop(ls, d, i, total) ==
  IF i >= Len(ls) - 1 THEN [foundIndex |-> INVALID_INDEX_VALUE, total |-> total]
  ELSE LET t == total + ls[i + 2].distTo
       IN  IF t > d THEN [foundIndex |-> i, total |-> t] ELSE findLegLoop(ls, d, i + 1, t)

\* The skip over approach points of Route::positionAtDistance; the leg is read
\* before the index is compared with the size.
RECURSIVE skipApproachPoints(_, _)
skipApproachPoints(ls, foundIndex) ==
  IF foundIndex >= Len(ls) THEN foundIndex
  ELSE IF isApproachPoint(ls[foundIndex + 1].id) THEN skipApproachPoints(ls, foundIndex + 1)
  ELSE foundIndex

\* positionAtDistance without the test of the range of the distance
positionAtDistanceNoRangeTest(ls, total, d) ==
  LET f == findLegLoop(ls, d, 0, 0)
  IN  IF f.foundIndex < Len(ls) - 1
      THEN IF ~isAnyProcedure(ls[f.foundIndex + 1].id)
           THEN interpolate(getPositionAt(ls, f.foundIndex), getPositionAt(ls, f.foundIndex + 1),
                            d - (f.total - ls[f.foundIndex + 2].distTo),
                            ls[f.foundIndex + 2].distTo)
           ELSE LET k == skipApproachPoints(ls, f.foundIndex + 1)
                IN  IF k >= Len(ls) THEN OutOfBounds
                    ELSE interpolate(LinePos1X(ls[k + 1].id), PosX(ls[k + 1].id),
                                     d - (f.total - calculatedDistance(ls[k + 1].id)),
                                     calculatedDistance(ls[k + 1].id))
      ELSE EMPTY_POS

\* Route::positionAtDistance(distFromStartNm)
positionAtDistance(ls, total, d) ==
  IF d < 0 \/ d > total THEN EMPTY_POS
  ELSE LET f == findLegLoop(ls, d, 0, 0)
       IN  IF f.foundIndex < Len(ls) - 1
           THEN IF ~isAnyProcedure(ls[f.foundIndex + 1].id)
                THEN interpolate(getPositionAt(ls, f.foundIndex), getPositionAt(ls, f.foundIndex + 1),
                                 d - (f.total - ls[f.foundIndex + 2].distTo),
                                 ls[f.foundIndex + 2].distTo)
                ELSE LET k == skipApproachPoints(ls, f.foundIndex + 1)
                     IN  IF k >= Len(ls) THEN OutOfBounds
                         ELSE interpolate(LinePos1X(ls[k + 1].id), PosX(ls[k + 1].id),
                                          d - (f.total - calculatedDistance(ls[k + 1].id)),
                                          calculatedDistance(ls[k + 1].id))
           ELSE EMPTY_POS

----------------------------------------------------------------------------
(* The state after construction *)

Op(op, arg, res) == [op |-> op, arg |-> arg, ret |-> res]

NoHist == [phase |-> "none", clean |-> FALSE, nLegs |-> 0, nEntries |-> 0, nSpliced |-> 0]

\* The legs created from the entries of a flight plan
LegsOf(plan) ==
  [i \in 1..Len(plan) |-> [id |-> plan[i], index |-> 0, distTo |-> 0, flightplan |-> "this"]]

\* A route loaded from a plain flight plan with the given stored procedures,
\* before the procedure legs are created.
InitRoute(plan, dep, star, arr) ==
  LET u == updateAll(LegsOf(plan), star, arr)
  IN  /\ legs = u.legs
      /\ entries = plan
      /\ totalDistance = u.totalDistance
      /\ boundingRect = u.boundingRect
      /\ trueCourse = u.trueCourse
      /\ departureLegs = dep
      /\ starLegs = star
      /\ arrivalLegs = arr
      /\ departureLegsOffset = INVALID_INDEX_VALUE
      /\ starLegsOffset = INVALID_INDEX_VALUE
      /\ arrivalLegsOffset = INVALID_INDEX_VALUE

\* Route::Route(): no active leg
InitActive ==
  /\ activeLeg = resetActive.activeLeg
  /\ activeLegResult = resetActive.activeLegResult
  /\ activePos = resetActive.activePos

InitHistory ==
  /\ lastOp = Op("Route", 0, 0)
  /\ hist = NoHist
  /\ other = NoRoute

----------------------------------------------------------------------------
(* Operations *)

\* Procedures belong to airports: a departure is chosen for a route that
\* starts at the origin airport, a STAR or an approach for a route that ends at
\* the destination airport.
HasOrigin(ls) == ls # <<>> /\ ls[1].id = OriginId
HasDestination(ls) == Len(ls) >= 2 /\ ls[Len(ls)].id = DestId

\* Route::setDepartureProcedureLegs, setStarProcedureLegs, setArrivalProcedureLegs
\* (route.h): store the procedure chosen for the route.
SetDepartureLegs(p) ==
  /\ departureLegs = <<>> /\ p # <<>>
  /\ HasOrigin(legs)
  /\ departureLegs' = p
  /\ lastOp' = Op("setDepartureLegs", 0, 0)
  /\ hist' = NoHist
  /\ UNCHANGED other
  /\ UNCHANGED <<legs, entries, starLegs, arrivalLegs, departureLegsOffset, starLegsOffset,
                 arrivalLegsOffset, totalDistance, boundingRect, trueCourse, activeVars, shownMissed>>

SetStarLegs(p) ==
  /\ starLegs = <<>> /\ p # <<>>
  /\ HasDestination(legs)
  /\ starLegs' = p
  /\ lastOp' = Op("setStarLegs", 0, 0)
  /\ hist' = NoHist
  /\ UNCHANGED other
  /\ UNCHANGED <<legs, entries, departureLegs, arrivalLegs, departureLegsOffset, starLegsOffset,
                 arrivalLegsOffset, totalDistance, boundingRect, trueCourse, activeVars, shownMissed>>

SetArrivalLegs(p) ==
  /\ arrivalLegs = NoArrival /\ p # NoArrival
  /\ HasDestination(legs)
  /\ arrivalLegs' = p
  /\ lastOp' = Op("setArrivalLegs", 0, 0)
  /\ hist' = NoHist
  /\ UNCHANGED other
  /\ UNCHANGED <<legs, entries, departureLegs, starLegs, departureLegsOffset, starLegsOffset,
                 arrivalLegsOffset, totalDistance, boundingRect, trueCourse, activeVars, shownMissed>>

\* Route::updateProcedureLegs.  The departure loop reads at(i), which needs an
\* origin leg.
UpdateProcedureLegs ==
  /\ departureLegs = <<>> \/ legs # <<>>
  /\ LET u == updateProcedureLegs(legs, entries, departureLegs, starLegs, arrivalLegs)
     IN  /\ legs' = u.legs
         /\ entries' = u.entries
         /\ departureLegsOffset' = u.departureLegsOffset
         /\ starLegsOffset' = u.starLegsOffset
         /\ arrivalLegsOffset' = u.arrivalLegsOffset
  /\ lastOp' = Op("updateProcedureLegs", 0, 0)
  /\ hist' = [phase |-> "spliced",
              clean |-> \A i \in 1..Len(legs) : ~isAnyProcedure(legs[i].id),
              nLegs |-> Len(legs), nEntries |-> Len(entries), nSpliced |-> Len(legs')]
  /\ UNCHANGED other
  /\ UNCHANGED <<departureLegs, starLegs, arrivalLegs, totalDistance, boundingRect, trueCourse,
                 activeVars, shownMissed>>

\* The members of the route that the clear operations work on
RouteState ==
  [legs |-> legs, entries |-> entries, departureLegs |-> departureLegs,
   starLegs |-> starLegs, arrivalLegs |-> arrivalLegs, totalDistance |-> totalDistance,
   boundingRect |-> boundingRect, trueCourse |-> trueCourse]

SetRouteState(r) ==
  /\ legs' = r.legs
  /\ entries' = r.entries
  /\ departureLegs' = r.departureLegs
  /\ starLegs' = r.starLegs
  /\ arrivalLegs' = r.arrivalLegs
  /\ totalDistance' = r.totalDistance
  /\ boundingRect' = r.boundingRect
  /\ trueCourse' = r.trueCourse

\* The common tail of the clear operations: eraseProcedureLegs(type) and
\* updateAll() on a route whose stored procedures are already reset.
eraseAndUpdateAll(r, type) ==
  LET e == eraseProcedureLegs(r.legs, r.entries, type)
      u == updateAll(e.legs, r.starLegs, r.arrivalLegs)
  IN  [r EXCEPT !.legs = u.legs, !.entries = e.entries, !.totalDistance = u.totalDistance,
                !.boundingRect = u.boundingRect, !.trueCourse = u.trueCourse]

\* Route::clearApproachAndTransProcedure
clearApproachAndTransProcedure(r) ==
  IF hasArrivalProcedure(r.arrivalLegs)
  THEN eraseAndUpdateAll([r EXCEPT !.arrivalLegs = NoArrival], PROCEDURE_ARRIVAL)
  ELSE r

\* A clearTransitionProcedure that erases the whole arrival procedure
clearTransitionProcedureWide(r) ==
  IF hasTransitionProcedure(r.arrivalLegs)
  THEN eraseAndUpdateAll([r EXCEPT !.arrivalLegs.trans = <<>>], PROCEDURE_ARRIVAL)
  ELSE r

\* Route::clearTransitionProcedure
clearTransitionProcedure(r) ==
  IF hasTransitionProcedure(r.arrivalLegs)
  THEN eraseAndUpdateAll([r EXCEPT !.arrivalLegs.trans = <<>>], PROCEDURE_TRANSITION)
  ELSE r

\* Route::clearStarProcedure
clearStarProcedure(r) ==
  IF hasStarProcedure(r.starLegs)
  THEN eraseAndUpdateAll([r EXCEPT !.starLegs = <<>>], PROCEDURE_STAR)
  ELSE r

\* Route::clearDepartureProcedure
clearDepartureProcedure(r) ==
  IF hasDepartureProcedure(r.departureLegs)
  THEN eraseAndUpdateAll([r EXCEPT !.departureLegs = <<>>], PROCEDURE_DEPARTURE)
  ELSE r

\* Route::clearAllProcedures
clearAllProcedures(r) ==
  clearDepartureProcedure(clearStarProcedure(clearTransitionProcedure(
    clearApproachAndTransProcedure(r))))

\* A clear operation that forgets the active leg as well
ClearFrameResetActive(op) ==
  /\ lastOp' = Op(op, 0, 0)
  /\ activeLeg' = resetActive.activeLeg
  /\ activeLegResult' = resetActive.activeLegResult
  /\ activePos' = resetActive.activePos
  /\ UNCHANGED <<departureLegsOffset, starLegsOffset, arrivalLegsOffset, shownMissed, hist, other>>

\* What no clear operation touches
ClearFrame(op) ==
  /\ lastOp' = Op(op, 0, 0)
  /\ UNCHANGED <<departureLegsOffset, starLegsOffset, arrivalLegsOffset, activeVars,
                 shownMissed, hist, other>>

ClearApproachAndTransProcedure ==
  SetRouteState(clearApproachAndTransProcedure(RouteState))
    /\ ClearFrame("clearApproachAndTransProcedure")

ClearTransitionProcedure ==
  SetRouteState(clearTransitionProcedure(RouteState)) /\ ClearFrame("clearTransitionProcedure")

ClearStarProcedure ==
  SetRouteState(clearStarProcedure(RouteState)) /\ ClearFrame("clearStarProcedure")

ClearDepartureProcedure ==
  SetRouteState(clearDepartureProcedure(RouteState)) /\ ClearFrame("clearDepartureProcedure")

ClearAllProcedures ==
  SetRouteState(clearAllProcedures(RouteState)) /\ ClearFrame("clearAllProcedures")

\* Route::updateAll called by the owner of the route
UpdateAll ==
  /\ LET u == updateAll(legs, starLegs, arrivalLegs)
     IN  /\ legs' = u.legs
         /\ totalDistance' = u.totalDistance
         /\ boundingRect' = u.boundingRect
         /\ trueCourse' = u.trueCourse
  /\ lastOp' = Op("updateAll", 0, 0)
  /\ UNCHANGED <<entries, departureLegs, starLegs, arrivalLegs, departureLegsOffset,
                 starLegsOffset, arrivalLegsOffset, activeVars, shownMissed, hist, other>>

\* History of a call of updateActiveLegAndPos: whether the call before it was
\* one as well, with a valid position, and whether that was the same sample.
callKind(pos) ==
  IF lastOp.op = "updateActiveLegAndPos" /\ activePos.valid
  THEN IF pos = activePos THEN "same" ELSE "other"
  ELSE "first"

\* Route::updateActiveLegAndPos(pos); the history keeps the active leg the
\* call started with.
UpdateActiveLegAndPos(pos) ==
  /\ LET a == updateActiveLegAndPos(legs, shownMissed, activeLeg, pos)
     IN  /\ activeLeg' = a.activeLeg
         /\ activeLegResult' = a.activeLegResult
         /\ activePos' = a.activePos
  /\ lastOp' = Op("updateActiveLegAndPos", activeLeg, callKind(pos))
  /\ UNCHANGED <<routeVars, departureLegsOffset, starLegsOffset, arrivalLegsOffset,
                 shownMissed, hist, other>>

\* Route::updateActiveLegAndPos(): once more with the stored position
UpdateActiveLegAndPosAgain == UpdateActiveLegAndPos(activePos)

\* What Route::setActiveLeg computes from legs that exist
setActiveLegResult(ls, pos, active) ==
  distanceMeterToLine(pos, getPositionAt(ls, active - 1), getPositionAt(ls, active))

\* Route::setActiveLeg(value).  With fewer than two legs at(1) is read behind
\* the end of the list: the stored result is then any line distance.
SetActiveLeg(value) ==
  /\ activeLeg' = IF value > 0 /\ value < Len(legs) THEN value ELSE 1
  /\ IF activeLeg' < Len(legs)
     THEN activeLegResult' = setActiveLegResult(legs, activePos, activeLeg')
     ELSE activeLegResult' \in
            {InvalidLineDistance,
             [status |-> "ALONG_TRACK", distance |-> 0, distanceFrom1 |-> 0, distanceFrom2 |-> 0]}
  /\ lastOp' = Op("setActiveLeg", value, 0)
  /\ UNCHANGED <<routeVars, departureLegsOffset, starLegsOffset, arrivalLegsOffset,
                 activePos, shownMissed, hist, other>>

\* Route::setShownMapFeatures: the display filter for missed approach legs
SetShownMapFeatures(b) ==
  /\ shownMissed' = b
  /\ lastOp' = Op("setShownMapFeatures", 0, 0)
  /\ UNCHANGED <<routeVars, departureLegsOffset, starLegsOffset, arrivalLegsOffset,
                 activeVars, hist, other>>

\* Route::operator=(other) and the copy constructor: Route::copy.  The
\* offsets, the active leg and its result are not assigned.
Copy ==
  /\ other.exists
  /\ LET c == copy(other)
     IN  /\ legs' = c.legs
         /\ entries' = c.entries
         /\ totalDistance' = c.totalDistance
         /\ shownMissed' = c.shownMissed
         /\ boundingRect' = c.boundingRect
         /\ activePos' = c.activePos
         /\ trueCourse' = c.trueCourse
         /\ arrivalLegs' = c.arrivalLegs
         /\ starLegs' = c.starLegs
         /\ departureLegs' = c.departureLegs
  /\ lastOp' = Op("copy", 0, 0)
  /\ hist' = NoHist
  /\ UNCHANGED <<departureLegsOffset, starLegsOffset, arrivalLegsOffset, activeLeg,
                 activeLegResult, other>>

\* Route::getRouteDistances: a query, its result is recorded.  With an active
\* leg index behind the end of the list, at(activeLeg) reads outside of it.
GetRouteDistances ==
  /\ legs # <<>> \/ activeLeg = INVALID_INDEX_VALUE
  /\ \E activeId \in activeLegRead(legs, activeLeg) :
       lastOp' = Op("getRouteDistances", activeLeg,
                    getRouteDistances(legs, activeLeg, activeId, activePos, activeLegResult))
  /\ UNCHANGED <<routeVars, departureLegsOffset, starLegsOffset, arrivalLegsOffset,
                 activeVars, shownMissed, hist, other>>

\* Route::positionAtDistance(d): a query, its result is recorded
\* Route::nearestAllLegIndex(pos, crossTrackDistanceMeter, index) called
\* for a position
NearestAllLegIndex(pos) ==
  /\ lastOp' = Op("nearestAllLegIndex", pos, nearestAllLegIndex(legs, pos))
  /\ UNCHANGED <<routeVars, departureLegsOffset, starLegsOffset, arrivalLegsOffset,
                 activeVars, shownMissed, hist, other>>

\* Route::nearestLegResult(pos, lineDistanceResult, index) called for a
\* position
NearestLegResult(pos) ==
  /\ lastOp' = Op("nearestLegResult", pos, nearestLegResult(legs, pos))
  /\ UNCHANGED <<routeVars, departureLegsOffset, starLegsOffset, arrivalLegsOffset,
                 activeVars, shownMissed, hist, other>>

\* Route::getActiveLegIndexCorrected(corrected): [index, corrected].  The
\* test nextLeg < size() && nextLeg == size() holds for no index, and at(nextLeg)
\* behind it is never read.
getActiveLegIndexCorrected(ls, active) ==
  IF active = INVALID_INDEX_VALUE
  THEN [index |-> INVALID_INDEX_VALUE, corrected |-> "unwritten"]
  ELSE IF active + 1 < Len(ls) /\ active + 1 = Len(ls) /\ isAnyProcedure(ls[active + 2].id)
  THEN [index |-> active + 1, corrected |-> TRUE]
  ELSE [index |-> active, corrected |-> FALSE]

\* Route::getActiveLegIndexCorrected called by HtmlInfoBuilder::aircraftProgressText
GetActiveLegIndexCorrected ==
  /\ lastOp' = Op("getActiveLegIndexCorrected", activeLeg,
                  getActiveLegIndexCorrected(legs, activeLeg))
  /\ UNCHANGED <<routeVars, departureLegsOffset, starLegsOffset, arrivalLegsOffset,
                 activeVars, shownMissed, hist, other>>

PositionAtDistance(d) ==
  /\ lastOp' = Op("positionAtDistance", d, positionAtDistance(legs, totalDistance, d))
  /\ UNCHANGED <<routeVars, departureLegsOffset, starLegsOffset, arrivalLegsOffset,
                 activeVars, shownMissed, hist, other>>

----------------------------------------------------------------------------
(* Specifications *)

\* Distances asked of positionAtDistance: around both ends and in between
QueryDistances ==
  {-1, 0, 1, totalDistance \div 2, totalDistance - 1, totalDistance, totalDistance + 1}

\* Aircraft positions and courses fed to the active leg tracking: on and
\* beside the route, before its start and behind its end, near the leg ends
\* and the holds, flown along and against the route, and far away from it.
SampleX == {-2000, 2000, 3995, 4000, 6000, 21000, 26000, 27500, 29500, 31000, 35000, 41000}
Samples ==
  {PosCourse(x, 0, 90) : x \in SampleX}
    \cup {PosCourse(x, 500, 90) : x \in {2000, 3995, 27500, 31000}}
    \cup {PosCourse(x, 0, 270) : x \in {2000, 27500}}
    \cup {PosCourse(x, 2000, 90) : x \in {27500, 31000}}
    \cup {PosCourse(x, -2000, 90) : x \in {27500, 31000}}
    \cup {PosCourse(3995, 8, 90), PosCourse(2000, 200000, 90), InvalidPosCourse}

FewSamples ==
  {PosCourse(35000, 500, 90), InvalidPosCourse}

\* Arguments of setActiveLeg: valid indexes, 0, and one behind the last leg
ActiveLegValues == {v \in {0, 1, 2, Len(legs) - 1, Len(legs)} : v >= 0}

SpliceOps ==
  \/ UpdateProcedureLegs
  \/ ClearApproachAndTransProcedure
  \/ ClearTransitionProcedure
  \/ ClearStarProcedure
  \/ ClearDepartureProcedure
  \/ ClearAllProcedures
  \/ UpdateAll

\* Building and editing a route: procedures are chosen, spliced and cleared
InitSplice ==
  /\ \E plan \in PlainRoutes : InitRoute(plan, <<>>, <<>>, NoArrival)
  /\ InitActive
  /\ shownMissed = TRUE
  /\ InitHistory

NextSplice ==
  \/ \E p \in DepartureCatalog : SetDepartureLegs(p)
  \/ \E p \in StarCatalog : SetStarLegs(p)
  \/ \E p \in ArrivalCatalog : SetArrivalLegs(p)
  \/ SpliceOps

SpecSplice == InitSplice /\ [][NextSplice]_vars

\* Flying a route: a route with its procedure legs in place is tracked
ProcedureChoices ==
  {<<dep, star, arr>> : dep \in DepartureCatalog, star \in StarCatalog, arr \in ArrivalCatalog}

\* The procedure sets of the routes that are flown
FlownChoices ==
  { <<<<>>, <<>>, NoArrival>>,
    <<<<11, 12>>, <<21, 22>>, [trans |-> <<>>, appr |-> <<44, 51>>]>>,
    <<<<>>, <<21, 22>>, [trans |-> <<31, 32>>, appr |-> <<41, 42, 43, 44, 51>>]>>,
    <<<<>>, <<>>, [trans |-> <<>>, appr |-> <<45, 46, 47, 48, 51>>]>> }

InitBuilt(plan, dep, star, arr) ==
  LET s == updateProcedureLegs(LegsOf(plan), plan, dep, star, arr)
      u == updateAll(s.legs, star, arr)
  IN  /\ legs = u.legs
      /\ entries = s.entries
      /\ totalDistance = u.totalDistance
      /\ boundingRect = u.boundingRect
      /\ trueCourse = u.trueCourse
      /\ departureLegs = dep
      /\ starLegs = star
      /\ arrivalLegs = arr
      /\ departureLegsOffset = s.departureLegsOffset
      /\ starLegsOffset = s.starLegsOffset
      /\ arrivalLegsOffset = s.arrivalLegsOffset

\* Procedures belong to the airports: a plan gets them when it has both
HasAirports(plan) == Len(plan) >= 2 /\ plan[Len(plan)] = DestId

InitActiveSpec ==
  /\ \E plan \in PlainRoutes, c \in FlownChoices :
       /\ HasAirports(plan) \/ c = <<<<>>, <<>>, NoArrival>>
       /\ InitBuilt(plan, c[1], c[2], c[3])
  /\ InitActive
  /\ shownMissed = TRUE
  /\ InitHistory

NextActive ==
  \/ \E p \in Samples : UpdateActiveLegAndPos(p)
  \/ UpdateActiveLegAndPosAgain
  \/ \E v \in ActiveLegValues : SetActiveLeg(v)
  \/ \E b \in BOOLEAN : SetShownMapFeatures(b)

SpecActive == InitActiveSpec /\ [][NextActive]_vars

\* Flying approaches: a procedure turn, holds that are left at the start of
\* the next leg and by their helping line, a hold behind a procedure turn,
\* two and three initial fixes behind a hold, a hold at the end of a leg
\* with the next leg starting at its fix, and initial fixes up to the
\* destination.
ApproachChoices ==
  { [trans |-> <<31, 32>>, appr |-> <<41, 42, 43, 44, 51>>],
    [trans |-> <<>>, appr |-> <<45, 46, 47, 48, 51>>],
    [trans |-> <<>>, appr |-> <<41, 43, 50, 48, 51>>],
    [trans |-> <<>>, appr |-> <<45, 46, 47, 49, 48, 51>>],
    [trans |-> <<>>, appr |-> <<45, 44, 51>>],
    [trans |-> <<>>, appr |-> <<45, 46, 47>>] }

\* Positions around the approaches: near the ends of the procedure turn, in
\* and beside the holds on both sides, flown along and against the legs
ApproachSamples ==
  {PosCourse(x, 0, 90) : x \in {26500, 27500, 28950, 29000, 29500, 31000, 32500, 35000}}
    \cup {PosCourse(x, 0, 270) : x \in {28950, 29500, 31000}}
    \cup {PosCourse(x, 0, 60) : x \in {28950, 31000}}
    \cup {PosCourse(x, y, 90) : x \in {29500, 31000}, y \in {-2000, -500, 500, 2000}}
    \cup {InvalidPosCourse}

InitApproach ==
  /\ \E arr \in ApproachChoices : InitBuilt(<<OriginId, DestId>>, <<>>, <<>>, arr)
  /\ InitActive
  /\ shownMissed = TRUE
  /\ InitHistory

NextApproach ==
  \/ \E p \in ApproachSamples : UpdateActiveLegAndPos(p)
  \/ UpdateActiveLegAndPosAgain
  \/ \E v \in 0..Len(legs) : SetActiveLeg(v)
  \/ \E b \in BOOLEAN : SetShownMapFeatures(b)

SpecApproach == InitApproach /\ [][NextApproach]_vars

\* Asking a complete route for positions
InitQuery ==
  /\ \E plan \in PlainRoutes, c \in ProcedureChoices :
       /\ HasAirports(plan) \/ c = <<<<>>, <<>>, NoArrival>>
       /\ InitBuilt(plan, c[1], c[2], c[3])
  /\ InitActive
  /\ shownMissed = TRUE
  /\ InitHistory

NextQuery == \E d \in QueryDistances : PositionAtDistance(d)

SpecQuery == InitQuery /\ [][NextQuery]_vars

\* A plain route gets procedures, is recomputed and tracked, and is asked for
\* its distances
ProgressSamples ==
  {PosCourse(-2000, 0, 90), PosCourse(2000, 0, 90), PosCourse(27500, 0, 90),
   PosCourse(35000, 500, 90)}

NextProgress ==
  \/ \E p \in StarCatalog : SetStarLegs(p)
  \/ \E p \in ArrivalCatalog : SetArrivalLegs(p)
  \/ UpdateProcedureLegs
  \/ UpdateAll
  \/ \E p \in ProgressSamples : UpdateActiveLegAndPos(p)
  \/ GetRouteDistances

SpecProgress == InitSplice /\ [][NextProgress]_vars

\* Asking any route for positions: also a flight plan without entries whose
\* stored STAR or arrival procedure was spliced in
InitQueryAny ==
  /\ \E plan \in PlainRoutes, c \in ProcedureChoices :
       /\ HasAirports(plan) \/ c = <<<<>>, <<>>, NoArrival>> \/ (plan = <<>> /\ c[1] = <<>>)
       /\ InitBuilt(plan, c[1], c[2], c[3])
  /\ InitActive
  /\ shownMissed = TRUE
  /\ InitHistory

SpecQueryAny == InitQueryAny /\ [][NextQuery]_vars

\* Asking a complete route for the leg nearest to a position
NextNearest ==
  \/ \E p \in Samples : NearestAllLegIndex(p)
  \/ \E p \in Samples : NearestLegResult(p)

SpecNearest == InitQuery /\ [][NextNearest]_vars

\* The route that is copied from: built from a plan and its procedures by
\* another Route object, whose legs refer to the flight plan of that object.
OtherRoute(plan, dep, star, arr, pos) ==
  LET sp == updateProcedureLegs(LegsOf(plan), plan, dep, star, arr)
      u == updateAll(sp.legs, star, arr)
  IN  [exists |-> TRUE, legs |-> setFlightplan(u.legs, "other"), entries |-> sp.entries,
       totalDistance |-> u.totalDistance, shownMissed |-> FALSE,
       boundingRect |-> u.boundingRect, activePos |-> pos, trueCourse |-> u.trueCourse,
       arrivalLegs |-> arr, starLegs |-> star, departureLegs |-> dep,
       activeLeg |-> updateActiveLegAndPos(u.legs, FALSE, INVALID_INDEX_VALUE, pos).activeLeg,
       activeLegResult |->
         updateActiveLegAndPos(u.legs, FALSE, INVALID_INDEX_VALUE, pos).activeLegResult,
       departureLegsOffset |-> sp.departureLegsOffset, starLegsOffset |-> sp.starLegsOffset,
       arrivalLegsOffset |-> sp.arrivalLegsOffset]

\* A new Route next to a route with procedures
InitCopy ==
  /\ InitRoute(<<>>, <<>>, <<>>, NoArrival)
  /\ InitActive
  /\ shownMissed = TRUE
  /\ lastOp = Op("Route", 0, 0)
  /\ hist = NoHist
  /\ \E plan \in PlainRoutes, c \in ProcedureChoices :
       /\ HasAirports(plan) \/ c = <<<<>>, <<>>, NoArrival>>
       /\ other = OtherRoute(plan, c[1], c[2], c[3], PosCourse(2000, 0, 90))

\* The route is assigned to the new one, which is edited afterwards
NextCopy ==
  \/ Copy
  \/ SpliceOps

SpecCopy == InitCopy /\ [][NextCopy]_vars

\* Aircraft positions for the distance queries: before the origin, on the
\* first legs, at the first waypoint, on the approach, beside the final leg
\* and on the missed approach
DistanceSamples ==
  {PosCourse(-2000, 0, 90), PosCourse(2000, 0, 90), PosCourse(4000, 0, 90),
   PosCourse(27500, 0, 90), PosCourse(35000, 500, 90), PosCourse(41000, 0, 90),
   InvalidPosCourse}

\* A flown route is tracked, its active leg is chosen by hand, procedures are
\* removed from it and its distances are asked for.
NextDistances ==
  \/ \E p \in DistanceSamples : UpdateActiveLegAndPos(p)
  \/ activePos.valid /\ Len(legs) >= 2 /\ (\E v \in {1, Len(legs) - 1} : SetActiveLeg(v))
  \/ ClearStarProcedure
  \/ ClearAllProcedures
  \/ GetRouteDistances
  \/ GetActiveLegIndexCorrected

SpecDistances == InitActiveSpec /\ [][NextDistances]_vars

\* The procedure sets stored with the routes that are edited and flown
StoredChoices ==
  { <<<<>>, <<>>, NoArrival>>,
    <<<<11, 12>>, <<21, 22>>, [trans |-> <<31, 32>>, appr |-> <<41, 42, 43, 44, 51>>]>> }

\* Everything together: a route with stored procedures is spliced, cleared
\* and tracked in any order.
Init ==
  /\ \E plan \in PlainRoutes, c \in StoredChoices :
       /\ HasAirports(plan) \/ c = <<<<>>, <<>>, NoArrival>>
       /\ InitRoute(plan, c[1], c[2], c[3])
  /\ InitActive
  /\ shownMissed = FALSE
  /\ InitHistory

Next ==
  \/ SpliceOps
  \/ \E p \in FewSamples : UpdateActiveLegAndPos(p)
  \/ \E v \in {0, 1} : SetActiveLeg(v)

Spec == Init /\ [][Next]_vars

----------------------------------------------------------------------------
(* Properties *)

NoActiveLeg == activeLeg = INVALID_INDEX_VALUE

HasProcedureLeg(ls) == \E i \in 1..Len(ls) : isAnyProcedure(ls[i].id)

HasHold(ls) == \E i \in 1..Len(ls) : isHold(ls[i].id)

ClearOps ==
  {"clearApproachAndTransProcedure", "clearTransitionProcedure", "clearStarProcedure",
   "clearDepartureProcedure", "clearAllProcedures"}

NoStoredProcedure == departureLegs = <<>> /\ starLegs = <<>> /\ ProcIsEmpty(arrivalLegs)

\* C1: in every reachable state the active leg index is the sentinel for no
\* active leg or an index of a leg of the route.
C1_ActiveLegInRange == NoActiveLeg \/ (0 <= activeLeg /\ activeLeg < Len(legs))

\* C2: the entry list is as long as the leg list and the entry at each index
\* is the one that belongs to the leg at that index.
C2_EntriesParallel ==
  /\ Len(entries) = Len(legs)
  /\ \A i \in 1..Len(legs) :
       entries[i] = IF isAnyProcedure(legs[i].id) THEN buildFlightplanEntry(legs[i].id)
                    ELSE legs[i].id

\* C2 witness: procedure legs were spliced in and a clear operation removed
\* some of them again.
C2_Witness ==
  /\ lastOp.op = "clearStarProcedure"
  /\ hist.phase = "spliced" /\ Len(legs) < hist.nSpliced
  /\ HasProcedureLeg(legs)

\* No segment of the route is within 100 nautical miles of the position
FarFromAllSegments(ls, pos) ==
  \A i \in 1..(Len(ls) - 1) :
    Abs(distanceMeterToLine(pos, getPositionAt(ls, i - 1), getPositionAt(ls, i)).distance)
      > nmToMeter(10000)

\* C3: a call of updateActiveLegAndPos with a valid position on a route with
\* segments and no active leg, where no segment is within 100 nautical miles,
\* returns with no active leg.
C3_NoActiveLegWhenFar ==
  (/\ lastOp.op = "updateActiveLegAndPos"
   /\ lastOp.arg = INVALID_INDEX_VALUE
   /\ activePos.valid
   /\ Len(legs) >= 2
   /\ FarFromAllSegments(legs, activePos))
  => NoActiveLeg

\* A second call of updateActiveLegAndPos in a row with the same valid sample
SameSampleAgain ==
  lastOp.op = "updateActiveLegAndPos" /\ lastOp.ret = "same" /\ activePos.valid

\* C4 as stated: a second call with the same sample leaves the active index
\* as the first call left it.
C4_Idempotent == SameSampleAgain => activeLeg = lastOp.arg

\* C4 amended: a second call with the same sample never moves the active
\* index back; it yields the index of the first call or a later leg.
C4_NeverBack == SameSampleAgain => (lastOp.arg <= activeLeg /\ activeLeg < Len(legs))

\* C4 witness: the second call with the same sample advanced once more.
C4_Witness == SameSampleAgain /\ activeLeg > lastOp.arg

\* C5: on a route without holds the active index never decreases from one
\* call of updateActiveLegAndPos with a valid position to the next (whatever
\* the positions are, so also when they advance along the route).
C5_NeverDecreases ==
  (/\ lastOp.op = "updateActiveLegAndPos"
   /\ lastOp.ret \in {"same", "other"}
   /\ activePos.valid
   /\ ~HasHold(legs))
  => lastOp.arg <= activeLeg

\* C5 witness: a later sample further along a route without holds advanced
\* the active leg by a call that followed another call.
C5_Witness ==
  /\ lastOp.op = "updateActiveLegAndPos" /\ lastOp.ret = "other" /\ activePos.valid
  /\ ~HasHold(legs) /\ Len(legs) >= 3
  /\ lastOp.arg < activeLeg

\* C6: after procedures were spliced into a route without procedure legs and
\* all of them were cleared again, the leg count and the entry count are what
\* they were before the splice and no leg is a procedure leg.
C6_SpliceThenClear ==
  (/\ hist.phase = "spliced" /\ hist.clean
   /\ lastOp.op \in ClearOps
   /\ NoStoredProcedure)
  => (/\ Len(legs) = hist.nLegs
      /\ Len(entries) = hist.nEntries
      /\ ~HasProcedureLeg(legs))

\* C6 witness: the splice inserted legs and clearAllProcedures removed them.
C6_Witness ==
  /\ hist.phase = "spliced" /\ hist.clean /\ hist.nSpliced > hist.nLegs
  /\ lastOp.op = "clearAllProcedures"
  /\ NoStoredProcedure
  /\ Len(legs) = hist.nLegs

HasLegOf(ls, type) == \E i \in 1..Len(ls) : eraseMatches(type, ls[i].id)

KeptLegs(ls, type) == SelectSeq(ls, LAMBDA leg : ~eraseMatches(type, leg.id))

\* C7: clearStarProcedure on a route with departure, STAR and arrival legs
\* removes only the STAR legs and their entries, leaves the departure and
\* arrival offsets as they are and leaves starLegsOffset at the invalid index.
C7_ClearStar ==
  [][(/\ lastOp'.op = "clearStarProcedure"
      /\ hasStarProcedure(starLegs)
      /\ HasLegOf(legs, PROCEDURE_DEPARTURE) /\ HasLegOf(legs, PROCEDURE_STAR)
      /\ HasLegOf(legs, PROCEDURE_ARRIVAL))
     => (/\ [i \in 1..Len(legs') |-> legs'[i].id]
              = [i \in 1..Len(KeptLegs(legs, PROCEDURE_STAR)) |-> KeptLegs(legs, PROCEDURE_STAR)[i].id]
         /\ entries' = SelectSeq(entries, LAMBDA e : ~isStar(e))
         /\ departureLegsOffset' = departureLegsOffset
         /\ arrivalLegsOffset' = arrivalLegsOffset
         /\ starLegsOffset' = INVALID_INDEX_VALUE)]_vars

\* C8: on a route of at least two legs without procedure legs,
\* positionAtDistance(0) is the position of the first leg and
\* positionAtDistance(totalDistance) is the position of the last leg.
C8_EndPositions ==
  (/\ lastOp.op = "positionAtDistance"
   /\ Len(legs) >= 2
   /\ ~HasProcedureLeg(legs))
  => (/\ lastOp.arg = 0 => lastOp.ret = ValidPos(getPositionAt(legs, 0))
      /\ lastOp.arg = totalDistance => lastOp.ret = ValidPos(getPositionAt(legs, Len(legs) - 1)))

\* The legs that count for the total distance: not a missed approach leg and
\* not the airport behind a STAR or an arrival procedure.
CountsForTotal(ls, star, arr, i) ==
  /\ ~isMissed(ls[i].id)
  /\ ~(/\ i = Len(ls)
       /\ getMapObjectType(ls[i].id) = "AIRPORT"
       /\ (star # <<>> \/ arr.appr # <<>>))

RECURSIVE SumDistanceTo(_, _, _, _)
SumDistanceTo(ls, star, arr, i) ==
  IF i = 0 THEN 0
  ELSE SumDistanceTo(ls, star, arr, i - 1)
         + (IF CountsForTotal(ls, star, arr, i) THEN ls[i].distTo ELSE 0)

\* C9: when updateProcedureLegs returns, every leg's stored index is its
\* position in the leg list and the total distance is the sum over the legs
\* as they are now.
C9_SpliceRecomputes ==
  lastOp.op = "updateProcedureLegs"
  => (/\ \A i \in 1..Len(legs) : legs[i].index = i - 1
      /\ totalDistance = updateAll(legs, starLegs, arrivalLegs).totalDistance)

\* C10: after updateAll on a route with legs the total distance is the sum
\* of the distances of the legs that are no missed approach legs and precede
\* the airport behind a STAR or arrival procedure.
C10_TotalDistance ==
  (lastOp.op = "updateAll" /\ legs # <<>>)
  => totalDistance = SumDistanceTo(legs, starLegs, arrivalLegs, Len(legs))

\* C10 witness: updateAll ran on a route with a missed approach leg and the
\* destination airport behind the arrival procedure.
C10_Witness ==
  /\ lastOp.op = "updateAll"
  /\ \E i \in 1..Len(legs) : isMissed(legs[i].id)
  /\ Len(legs) >= 2 /\ isAirportAfterArrival(legs, starLegs, arrivalLegs, Len(legs) - 1)
  /\ totalDistance > 0

\* The active state as Route::resetActive leaves it
ActiveStateReset ==
  /\ activeLeg = INVALID_INDEX_VALUE
  /\ activeLegResult.status = "INVALID"
  /\ activeLegResult.distance = INVALID_DISTANCE_VALUE
  /\ activeLegResult.distanceFrom1 = INVALID_DISTANCE_VALUE
  /\ activeLegResult.distanceFrom2 = INVALID_DISTANCE_VALUE
  /\ ~activePos.valid

\* C11: a call of updateActiveLegAndPos on an empty route or with an invalid
\* position leaves no active leg, an invalid leg result with the invalid
\* distance in every field and no stored position, and changes neither the
\* legs nor the entries.
C11_ResetOnInvalid ==
  [][\A p \in Samples :
       ((legs = <<>> \/ ~p.valid) /\ lastOp'.op = "updateActiveLegAndPos"
          /\ UpdateActiveLegAndPos(p))
         => (ActiveStateReset' /\ legs' = legs /\ entries' = entries)]_vars

\* C11 witness: a route with an active leg was reset by a call with an
\* invalid position.
C11_Witness ==
  /\ lastOp.op = "updateActiveLegAndPos"
  /\ lastOp.arg # INVALID_INDEX_VALUE
  /\ legs # <<>>
  /\ ActiveStateReset

\* C12: after updateActiveLegAndPos with a valid position the active index is
\* not 0 on a route of more than one leg and 0 on a route of one leg; after
\* setActiveLeg(v) on a route of more than one leg it is v when 0 < v < size
\* and 1 otherwise.
C12_NeverOrigin ==
  /\ (lastOp.op = "updateActiveLegAndPos" /\ activePos.valid /\ Len(legs) > 1)
       => activeLeg # 0
  /\ (lastOp.op = "updateActiveLegAndPos" /\ activePos.valid /\ Len(legs) = 1)
       => activeLeg = 0
  /\ (lastOp.op = "setActiveLeg" /\ Len(legs) > 1)
       => activeLeg = (IF 0 < lastOp.arg /\ lastOp.arg < Len(legs) THEN lastOp.arg ELSE 1)

\* C12 witness: a route of one leg was tracked with a valid position.
C12_Witness ==
  /\ lastOp.op = "updateActiveLegAndPos" /\ activePos.valid
  /\ Len(legs) = 1 /\ activeLeg = 0

\* The operations that splice procedure legs in, remove them or recompute
\* the derived data of the legs
RouteChangeOps == ClearOps \cup {"updateProcedureLegs", "updateAll"}

CategoryClearOps ==
  {"clearDepartureProcedure", "clearStarProcedure", "clearApproachAndTransProcedure",
   "clearTransitionProcedure"}

\* Whether a leg or entry of the given navaid belongs to the category of the
\* clear operation
InCategory(op, id) ==
  CASE op = "clearDepartureProcedure" -> isSid(id)
    [] op = "clearStarProcedure" -> isStar(id)
    [] op = "clearApproachAndTransProcedure" -> isTransition(id) \/ isApproach(id) \/ isMissed(id)
    [] op = "clearTransitionProcedure" -> isTransition(id)

\* Whether the route has a procedure of the category of the clear operation
HasCategory(op) ==
  CASE op = "clearDepartureProcedure" -> hasDepartureProcedure(departureLegs)
    [] op = "clearStarProcedure" -> hasStarProcedure(starLegs)
    [] op = "clearApproachAndTransProcedure" -> hasArrivalProcedure(arrivalLegs)
    [] op = "clearTransitionProcedure" -> hasTransitionProcedure(arrivalLegs)

LegIds(ls) == [i \in 1..Len(ls) |-> ls[i].id]

\* C14: a clear operation of one category leaves exactly the legs and the
\* entries outside its category, in their order; on a route without a
\* procedure of the category it changes neither the legs, the entries, the
\* stored procedures nor the total distance.
C14_ClearOwnCategory ==
  [][\A op \in CategoryClearOps :
       (lastOp'.op = op)
         => /\ LegIds(legs') = SelectSeq(LegIds(legs), LAMBDA id : ~InCategory(op, id))
            /\ entries' = SelectSeq(entries, LAMBDA id : ~InCategory(op, id))
            /\ ~HasCategory(op)
                 => /\ legs' = legs /\ entries' = entries
                    /\ departureLegs' = departureLegs /\ starLegs' = starLegs
                    /\ arrivalLegs' = arrivalLegs /\ totalDistance' = totalDistance]_vars

\* C14 witness: clearTransitionProcedure removed the transition legs of a
\* route that still has departure, STAR and approach legs.
C14_Witness ==
  /\ lastOp.op = "clearTransitionProcedure"
  /\ hist.phase = "spliced" /\ Len(legs) < hist.nSpliced
  /\ \E i \in 1..Len(legs) : isSid(legs[i].id)
  /\ \E i \in 1..Len(legs) : isStar(legs[i].id)
  /\ \E i \in 1..Len(legs) : isApproach(legs[i].id)
  /\ ~\E i \in 1..Len(legs) : isTransition(legs[i].id)

\* The legs of the flight plan proper among a sequence of leg ids
PlainIds(ids) == SelectSeq(ids, isRoute)

\* C15: updateProcedureLegs on a route with an origin and a destination leg
\* leaves the origin, the departure legs in their order from index 1 on, the
\* plain legs in the order they had, the STAR legs, the transition and
\* approach legs and at last the destination.
C15_SpliceOrder ==
  [][(/\ lastOp'.op = "updateProcedureLegs"
      /\ HasOrigin(legs) /\ HasDestination(legs))
     => LET plain == PlainIds(LegIds(legs))
        IN  LegIds(legs') = <<OriginId>> \o departureLegs
                              \o SubSeq(plain, 2, Len(plain) - 1)
                              \o starLegs \o ProcSeq(arrivalLegs) \o <<DestId>>]_vars

\* C15 witness: a route with a waypoint got departure, STAR, transition and
\* approach legs.
C15_Witness ==
  /\ lastOp.op = "updateProcedureLegs"
  /\ HasOrigin(legs) /\ HasDestination(legs)
  /\ Len(PlainIds(LegIds(legs))) >= 3
  /\ departureLegs # <<>> /\ starLegs # <<>>
  /\ arrivalLegs.trans # <<>> /\ arrivalLegs.appr # <<>>
  /\ Len(legs) = Len(PlainIds(LegIds(legs))) + Len(departureLegs) + Len(starLegs)
                   + ProcSize(arrivalLegs)

\* Whether offset is the 0-based index of the first leg of the block that was
\* inserted for the procedure legs proc, or the invalid index for no legs
IsBlockStart(offset, proc) ==
  IF proc = <<>> THEN offset = INVALID_INDEX_VALUE
  ELSE /\ offset \in 0..(Len(legs) - Len(proc))
       /\ \A k \in 1..Len(proc) : legs[offset + k].id = proc[k]

\* C16: after updateProcedureLegs each of the three offsets is the index of
\* the first leg of its block in the leg sequence, or the invalid index when
\* the stored procedure has no legs.
C16_Offsets ==
  (lastOp.op = "updateProcedureLegs")
  => (/\ IsBlockStart(departureLegsOffset, departureLegs)
      /\ IsBlockStart(starLegsOffset, starLegs)
      /\ IsBlockStart(arrivalLegsOffset, ProcSeq(arrivalLegs)))

\* C16 witness: a route with a waypoint got a departure, a STAR and an
\* arrival block.
C16_Witness ==
  /\ lastOp.op = "updateProcedureLegs"
  /\ Len(PlainIds(LegIds(legs))) >= 3
  /\ departureLegs # <<>> /\ starLegs # <<>> /\ arrivalLegs.trans # <<>>
  /\ departureLegsOffset = 1
  /\ starLegsOffset = 2 + Len(departureLegs)
  /\ arrivalLegsOffset = starLegsOffset + Len(starLegs)

\* C17: positionAtDistance(d) with d below 0 or above the total distance
\* returns the empty position, whatever the legs are.
C17_OutOfRange ==
  (/\ lastOp.op = "positionAtDistance"
   /\ (lastOp.arg < 0 \/ lastOp.arg > totalDistance))
  => lastOp.ret = EMPTY_POS

\* C17 witness: a distance below 0 was asked of a route with legs to search.
C17_Witness ==
  /\ lastOp.op = "positionAtDistance"
  /\ lastOp.arg < 0
  /\ Len(legs) >= 2 /\ totalDistance > 0
  /\ lastOp.ret = EMPTY_POS

\* The distance along the route from its start to a position on it: the legs
\* before the missed approach lie on a line in the order of the route.
AlongRoute(pos) == pos.x - getPositionAt(legs, 0)

\* C18: for d1 < d2, both from 0 to the total distance, positionAtDistance(d1)
\* is not further along the route than positionAtDistance(d2).
C18_Monotonic ==
  (/\ lastOp.op = "positionAtDistance"
   /\ 0 <= lastOp.arg /\ lastOp.arg <= totalDistance)
  => \A d1 \in QueryDistances :
       (0 <= d1 /\ d1 < lastOp.arg)
         => LET p1 == positionAtDistance(legs, totalDistance, d1)
            IN  /\ p1.valid /\ lastOp.ret.valid
                /\ AlongRoute(p1) <= AlongRoute(lastOp.ret)

\* The sum of the distances of the legs from..to (0-based), with or without
\* the missed approach legs
RECURSIVE SumLegDistances(_, _, _, _)
SumLegDistances(ls, from, to, withMissed) ==
  IF from > to THEN 0
  ELSE (IF withMissed \/ ~isMissed(ls[from + 1].id) THEN ls[from + 1].distTo ELSE 0)
         + SumLegDistances(ls, from + 1, to, withMissed)

\* Whether the active index is the index of a missed approach leg
ActiveIsMissed == activeLeg < Len(legs) /\ isMissed(legs[activeLeg + 1].id)

\* The distance from the stored position to the end of the active leg
RemainingDistance == distanceMeterTo(getPositionAt(legs, activeLeg), activePos)

\* C19: getRouteDistances without an active leg returns false and leaves the
\* output parameters alone; with an active leg it returns true, the distance
\* from the start is the sum of the distances of the legs 0..active minus the
\* distance that remains to the end of the active leg, the distance to the
\* destination is the sum for the legs behind the active leg plus that
\* remaining distance, and the distance to the next leg is that remaining
\* distance.
C19_RouteDistances ==
  (lastOp.op = "getRouteDistances")
  => IF activeLeg = INVALID_INDEX_VALUE
     THEN lastOp.ret = [ret |-> FALSE, out |-> NotWritten]
     ELSE /\ lastOp.ret.ret
          /\ activeLeg < Len(legs)
          /\ lastOp.ret.out.nextLegDistance = RemainingDistance
          /\ lastOp.ret.out.distFromStart
               = SumLegDistances(legs, 0, activeLeg, ActiveIsMissed) - RemainingDistance
          /\ lastOp.ret.out.distToDest
               = SumLegDistances(legs, activeLeg + 1, Len(legs) - 1, ActiveIsMissed)
                   + RemainingDistance

\* The last index that the sums of getRouteDistances can start from
LastCountedIndex == IF activeLeg >= Len(legs) THEN Len(legs) - 1 ELSE activeLeg

\* C20: the sums of getRouteDistances leave the missed approach legs out
\* unless the active leg is a missed approach leg, and take in every leg when
\* it is one.
C20_MissedExcluded ==
  (lastOp.op = "getRouteDistances" /\ activeLeg # INVALID_INDEX_VALUE)
  => /\ lastOp.ret.out.distFromStart
          = Abs(SumLegDistances(legs, 0, LastCountedIndex, ActiveIsMissed)
                  - lastOp.ret.out.nextLegDistance)
     /\ lastOp.ret.out.distToDest
          = SumLegDistances(legs, LastCountedIndex + 1, Len(legs) - 1, ActiveIsMissed)
              + lastOp.ret.out.nextLegDistance

\* C21: after Route::copy the legs and the entries are those of the other
\* route, every leg of this route refers to the flight plan of this route at
\* all times, and no operation on this route changes the other route or the
\* flight plan its legs refer to.
C21_DeepCopy ==
  [][/\ (lastOp'.op = "copy")
         => (LegIds(legs') = LegIds(other.legs) /\ entries' = other.entries)
     /\ \A i \in 1..Len(legs') : legs'[i].flightplan = "this"
     /\ other' = other
     /\ \A i \in 1..Len(other'.legs) : other'.legs[i].flightplan = "other"]_vars

\* C21 witness: a copied route with procedure legs lost legs by a clear
\* operation while the other route still has them.
C21_Witness ==
  /\ other.exists /\ lastOp.op \in ClearOps
  /\ HasProcedureLeg(other.legs)
  /\ legs # <<>> /\ Len(legs) < Len(other.legs)
  /\ entries # other.entries
  /\ \A i \in 1..Len(legs) : legs[i].flightplan = "this"

\* The first call of updateActiveLegAndPos on a route without active leg, with
\* a valid position, on the route origin, waypoint, destination
FirstSampleOnPlainRoute ==
  /\ lastOp.op = "updateActiveLegAndPos" /\ lastOp.arg = INVALID_INDEX_VALUE
  /\ activePos.valid
  /\ Len(legs) = 3 /\ ~HasProcedureLeg(legs)

\* Whether the stored position lies on the segment that ends at the 0-based
\* index i, flown along it
OnSegment(i) ==
  /\ legResult(legs, i, activePos).status = "ALONG_TRACK"
  /\ legResult(legs, i, activePos).distance = 0
  /\ activePos.course = legCourse(legs, i)

\* The stored position lies on the segment that ends at i and on no other
OnSegmentOnly(i) ==
  /\ OnSegment(i)
  /\ \A j \in 1..(Len(legs) - 1) :
       j # i => legResult(legs, j, activePos).status # "ALONG_TRACK"

\* C22 as stated: on the plain route of three legs without active leg a sample
\* that lies on exactly one segment and is flown along it makes the leg at the
\* end of that segment active, along track with cross track distance zero.
C22_OnSegment ==
  FirstSampleOnPlainRoute
  => \A i \in 1..(Len(legs) - 1) :
       OnSegmentOnly(i)
         => (/\ activeLeg = i
             /\ activeLegResult.status = "ALONG_TRACK"
             /\ activeLegResult.distance = 0)

\* C22 amended: the same for a sample that is 10 m or more away from the
\* start of the following segment; nearer to it the following leg is active.
C22_OnSegmentAwayFromNext ==
  FirstSampleOnPlainRoute
  => \A i \in 1..(Len(legs) - 1) :
       OnSegmentOnly(i)
         => IF i + 1 < Len(legs) /\ Abs(legResult(legs, i + 1, activePos).distance) < 10
            THEN activeLeg = i + 1
            ELSE /\ activeLeg = i
                 /\ activeLegResult.status = "ALONG_TRACK"
                 /\ activeLegResult.distance = 0

\* C22 witness: a sample on the first segment, far from the waypoint, made
\* leg 1 active.
C22_Witness ==
  /\ FirstSampleOnPlainRoute
  /\ OnSegmentOnly(1) /\ activePos.x = 2000
  /\ activeLeg = 1 /\ activeLegResult.status = "ALONG_TRACK"

\* A call of updateActiveLegAndPos with a valid position on a route of at
\* least two legs; the position of the call is the one stored by it.
TrackingCall ==
  lastOp'.op = "updateActiveLegAndPos" /\ activePos'.valid /\ Len(legs) >= 2

\* The leg the call starts from, whether there is a leg behind it, the
\* candidate leg, the line distances of the position to both and the
\* difference between the course flown and the course of the candidate leg
StartOf(p) == startLeg(legs, activeLeg, p)
HasCandidate(p) == StartOf(p) + 1 < Len(legs)
CandidateOf(p) == candidateLeg(legs, StartOf(p))
StartId(p) == legs[StartOf(p) + 1].id
CandidateId(p) == legs[CandidateOf(p) + 1].id
ActiveResultOf(p) == startLegResult(legs, StartOf(p), p)
CandidateResultOf(p) == legResult(legs, CandidateOf(p), p)
CourseDiffOf(p) == courseDifference(p.course, legCourse(legs, CandidateOf(p)))

\* The candidate is no missed approach leg that is hidden
NotVetoed(p) == shownMissed \/ ~isMissed(CandidateId(p))

\* The call made the candidate leg the active leg
Switched(p) == activeLeg' = CandidateOf(p)

\* The case of the plain leg rule
PlainLegCase(p) ==
  /\ HasCandidate(p) /\ NotVetoed(p)
  /\ ~isHold(StartId(p)) /\ getApproachLegType(StartId(p)) # "PROCEDURE_TURN"
  /\ ~isHold(CandidateId(p))

\* C23 as stated: on a leg that is no hold and no procedure turn, before a
\* leg that is no hold, the call switches exactly when the active leg is
\* after end, or the candidate's absolute cross track distance is more than
\* 10 m smaller than that of the active leg and the course difference is
\* below 90 degrees.
C23_PlainRule ==
  [][(TrackingCall /\ PlainLegCase(activePos'))
     => (Switched(activePos')
           <=> \/ ActiveResultOf(activePos').status = "AFTER_END"
               \/ /\ Abs(CandidateResultOf(activePos').distance)
                       < Abs(ActiveResultOf(activePos').distance) - 10
                  /\ CourseDiffOf(activePos') < 90)]_vars

\* C23 amended: the candidate's absolute distance has to be smaller than that
\* of the active leg plus 10 m.
C23_PlainRuleFuzzy ==
  [][(TrackingCall /\ PlainLegCase(activePos'))
     => (Switched(activePos')
           <=> \/ ActiveResultOf(activePos').status = "AFTER_END"
               \/ /\ Abs(CandidateResultOf(activePos').distance)
                       < Abs(ActiveResultOf(activePos').distance) + 10
                  /\ CourseDiffOf(activePos') < 90)]_vars

\* C23 witness: with the same cross track distance to both legs and the
\* active leg along track the call switched to the following plain leg.
C23_Witness ==
  /\ lastOp.op = "updateActiveLegAndPos" /\ activePos.valid
  /\ lastOp.arg # INVALID_INDEX_VALUE /\ lastOp.arg + 1 = activeLeg
  /\ activeLeg < Len(legs)
  /\ ~HasProcedureLeg(legs)
  /\ legResult(legs, lastOp.arg, activePos).status = "ALONG_TRACK"
  /\ legResult(legs, lastOp.arg, activePos).distance = activeLegResult.distance

\* The call starts on a procedure turn and the next leg is no hold
ProcedureTurnCase(p) ==
  /\ HasCandidate(p)
  /\ NotVetoed(p)
  /\ getApproachLegType(StartId(p)) = "PROCEDURE_TURN"
  /\ ~isHold(CandidateId(p))

\* C24 as stated: on a procedure turn the call switches to the next leg
\* exactly when the candidate's absolute cross track distance is smaller than
\* the active leg's by more than 100 m and the course difference is below 45
\* degrees; after-end alone does not switch.
C24_TurnRule ==
  [][(TrackingCall /\ ProcedureTurnCase(activePos'))
       => (Switched(activePos')
             <=> (/\ Abs(CandidateResultOf(activePos').distance)
                       < Abs(ActiveResultOf(activePos').distance) - 100
                  /\ CourseDiffOf(activePos') < 45))]_vars

\* C24 with the tolerance as the code applies it: on a procedure turn the
\* call switches exactly when the candidate's absolute cross track distance
\* is smaller than the active leg's plus 100 m and the course difference is
\* below 45 degrees; after-end alone does not switch.
C24_TurnRuleFuzzy ==
  [][(TrackingCall /\ ProcedureTurnCase(activePos'))
       => (Switched(activePos')
             <=> (/\ Abs(CandidateResultOf(activePos').distance)
                       < Abs(ActiveResultOf(activePos').distance) + 100
                  /\ CourseDiffOf(activePos') < 45))]_vars

\* A call on the procedure turn, behind its end and flown against the next
\* leg, that stayed on the procedure turn
C24_Witness ==
  /\ lastOp.op = "updateActiveLegAndPos"
  /\ activePos.valid
  /\ lastOp.arg # INVALID_INDEX_VALUE
  /\ lastOp.arg = activeLeg
  /\ activeLeg + 1 < Len(legs)
  /\ getApproachLegType(legs[activeLeg + 1].id) = "PROCEDURE_TURN"
  /\ ~isHold(legs[activeLeg + 2].id)
  /\ activeLegResult.status = "AFTER_END"
  /\ shownMissed

\* The call starts on a hold whose fix is not the start of the next leg
HoldLineCase(p) ==
  /\ HasCandidate(p)
  /\ NotVetoed(p)
  /\ isHold(StartId(p))
  /\ LinePos1X(CandidateId(p)) # PosX(StartId(p))

\* The line distance of the position to the helping line of the hold
ResultHoldOf(p) ==
  distanceMeterToLine(p, HoldLine(StartId(p))[1], HoldLine(StartId(p))[2])

\* C25 as stated: a hold with a helping line is left exactly when the
\* position is along track on the helping line and its signed distance is
\* beyond the boundary, +0.5 nm for a right turn hold and -0.5 nm for any
\* other turn direction.
C25_HoldLineRule ==
  [][(TrackingCall /\ HoldLineCase(activePos'))
       => (Switched(activePos')
             <=> (/\ ResultHoldOf(activePos').status = "ALONG_TRACK"
                  /\ IF turnDirection(StartId(activePos')) = "R"
                     THEN ResultHoldOf(activePos').distance > nmToMeter(50)
                     ELSE ResultHoldOf(activePos').distance < nmToMeter(-50)))]_vars

\* C25 with the boundaries of the code: a hold with a helping line is left
\* exactly when the position is along track on the helping line and its
\* signed distance, positive to the right of the line, is below -0.5 nm for
\* a right turn hold and below +0.5 nm for any other turn direction.
C25_HoldLineRuleBelow ==
  [][(TrackingCall /\ HoldLineCase(activePos'))
       => (Switched(activePos')
             <=> (/\ ResultHoldOf(activePos').status = "ALONG_TRACK"
                  /\ IF turnDirection(StartId(activePos')) = "R"
                     THEN ResultHoldOf(activePos').distance < nmToMeter(-50)
                     ELSE ResultHoldOf(activePos').distance < nmToMeter(50)))]_vars

\* A call that left a left turn hold over the next leg's start less than
\* 0.5 nm beside the helping line
C25_Witness ==
  /\ lastOp.op = "updateActiveLegAndPos"
  /\ activePos.valid
  /\ lastOp.arg # INVALID_INDEX_VALUE
  /\ lastOp.arg > 0
  /\ lastOp.arg < activeLeg
  /\ activeLeg < Len(legs)
  /\ isHold(legs[lastOp.arg + 1].id)
  /\ turnDirection(legs[lastOp.arg + 1].id) = "L"
  /\ LinePos1X(legs[activeLeg + 1].id) # PosX(legs[lastOp.arg + 1].id)
  /\ Abs(activePos.y) < nmToMeter(50)

\* The call starts on a hold whose fix is the start of the next leg
HoldSameCase(p) ==
  /\ HasCandidate(p)
  /\ NotVetoed(p)
  /\ isHold(StartId(p))
  /\ LinePos1X(CandidateId(p)) = PosX(StartId(p))

\* C26: a hold whose fix is the start of the next leg is left exactly when
\* the candidate is along track, less than 0.5 nm beside the next leg, more
\* than 0.75 nm behind its start, and the course differs by less than 25
\* degrees; the classification of the hold leg itself plays no part.
C26_HoldSameRule ==
  [][(TrackingCall /\ HoldSameCase(activePos'))
       => (Switched(activePos')
             <=> (/\ CandidateResultOf(activePos').status = "ALONG_TRACK"
                  /\ Abs(CandidateResultOf(activePos').distance) < nmToMeter(50)
                  /\ CandidateResultOf(activePos').distanceFrom1 > nmToMeter(75)
                  /\ CourseDiffOf(activePos') < 25))]_vars

\* A call behind the end of the hold leg, on the next leg and on course but
\* less than 0.75 nm into it, that stayed in the hold
C26_Witness ==
  /\ lastOp.op = "updateActiveLegAndPos"
  /\ activePos.valid
  /\ lastOp.arg # INVALID_INDEX_VALUE
  /\ lastOp.arg = activeLeg
  /\ activeLeg > 0
  /\ activeLeg + 1 < Len(legs)
  /\ isHold(legs[activeLeg + 1].id)
  /\ LinePos1X(legs[activeLeg + 2].id) = PosX(legs[activeLeg + 1].id)
  /\ activeLegResult.status = "AFTER_END"
  /\ activePos.y = 0
  /\ activePos.course = 90
  /\ shownMissed

\* The call starts on a leg that is no hold and the next leg is a hold
HoldEntryCase(p) ==
  /\ HasCandidate(p)
  /\ NotVetoed(p)
  /\ ~isHold(StartId(p))
  /\ isHold(CandidateId(p))

\* C27: in front of a hold the call switches exactly when the candidate's
\* absolute distance is below 0.5 nm, whatever the course, the classification
\* of the active leg and the type of the active leg are.
C27_HoldEntryRule ==
  [][(TrackingCall /\ HoldEntryCase(activePos'))
       => (Switched(activePos')
             <=> Abs(CandidateResultOf(activePos').distance) < nmToMeter(50))]_vars

\* A call on a procedure turn, flown against the route, that entered the
\* hold behind the turn
C27_Witness ==
  /\ lastOp.op = "updateActiveLegAndPos"
  /\ activePos.valid
  /\ lastOp.arg # INVALID_INDEX_VALUE
  /\ lastOp.arg > 0
  /\ lastOp.arg + 1 = activeLeg
  /\ activeLeg < Len(legs)
  /\ getApproachLegType(legs[lastOp.arg + 1].id) = "PROCEDURE_TURN"
  /\ isHold(legs[activeLeg + 1].id)
  /\ activePos.course = 270

\* The rules indicate a switch to the candidate
SwitchIndicated(p) ==
  switchToNextLeg(legs, StartOf(p), CandidateOf(p), p, ActiveResultOf(p), CandidateResultOf(p),
                  CourseDiffOf(p))

\* C28: when a switch to a missed approach leg is indicated and missed
\* approach legs are not displayed, the active leg and its result stay as
\* computed for the current leg; when they are displayed the switch is made.
C28_MissedVeto ==
  [][(/\ TrackingCall
      /\ HasCandidate(activePos')
      /\ isMissed(CandidateId(activePos'))
      /\ SwitchIndicated(activePos'))
       => IF shownMissed
          THEN /\ activeLeg' = CandidateOf(activePos')
               /\ activeLegResult' = CandidateResultOf(activePos')
          ELSE /\ activeLeg' = StartOf(activePos')
               /\ activeLegResult' = ActiveResultOf(activePos')]_vars

\* A call behind the end of the leg in front of the hidden missed approach
\* that kept this leg active
C28_Witness ==
  /\ lastOp.op = "updateActiveLegAndPos"
  /\ activePos.valid
  /\ ~shownMissed
  /\ lastOp.arg = activeLeg
  /\ activeLeg > 0
  /\ activeLeg + 1 < Len(legs)
  /\ ~isMissed(legs[activeLeg + 1].id)
  /\ ~isHold(legs[activeLeg + 1].id)
  /\ isMissed(legs[activeLeg + 2].id)
  /\ activeLegResult.status = "AFTER_END"

\* The leg at 0-based index i is an initial fix
IsInitialFix(i) == getApproachLegType(legs[i + 1].id) = "INITIAL_FIX"

\* C29 as stated: from a hold the call goes at most two legs beyond the
\* leg that follows the hold, from any other leg to the following leg only.
C29_SkipAtMostTwo ==
  [][(TrackingCall /\ HasCandidate(activePos'))
       => IF isHold(StartId(activePos'))
          THEN activeLeg' \in StartOf(activePos')..(StartOf(activePos') + 3)
          ELSE activeLeg' \in {StartOf(activePos'), StartOf(activePos') + 1}]_vars

\* C29 with the bound of the code: from a hold the candidate is the first
\* leg behind the hold that is no initial fix or that is the last leg but
\* one, however many initial fixes are skipped; from any other leg it is the
\* following leg; the call ends on the leg it started on or on the candidate.
C29_SkipInitialFixes ==
  [][(TrackingCall /\ HasCandidate(activePos'))
       => /\ activeLeg' \in {StartOf(activePos'), CandidateOf(activePos')}
          /\ IF isHold(StartId(activePos'))
             THEN /\ CandidateOf(activePos') > StartOf(activePos')
                  /\ CandidateOf(activePos') < Len(legs)
                  /\ \A i \in (StartOf(activePos') + 1)..(CandidateOf(activePos') - 1) :
                        IsInitialFix(i) /\ i < Len(legs) - 2
                  /\ \/ ~IsInitialFix(CandidateOf(activePos'))
                     \/ CandidateOf(activePos') >= Len(legs) - 2
             ELSE CandidateOf(activePos') = StartOf(activePos') + 1]_vars

\* A call that left a hold for the leg behind three initial fixes
C29_Witness ==
  /\ lastOp.op = "updateActiveLegAndPos"
  /\ activePos.valid
  /\ lastOp.arg # INVALID_INDEX_VALUE
  /\ lastOp.arg > 0
  /\ lastOp.arg + 4 = activeLeg
  /\ activeLeg < Len(legs)
  /\ isHold(legs[lastOp.arg + 1].id)
  /\ \A i \in (lastOp.arg + 1)..(activeLeg - 1) : IsInitialFix(i)

\* C30: after a call with a valid position on a route of two or more legs,
\* switched or not, the active leg is a leg of the route and the stored
\* result is the line distance of the stored position to the leg that ends at
\* the active leg.
C30_StoredResult ==
  (lastOp.op = "updateActiveLegAndPos" /\ activePos.valid /\ Len(legs) >= 2)
    => /\ activeLeg \in 1..(Len(legs) - 1)
       /\ activeLegResult = legResult(legs, activeLeg, activePos)

\* A call that switched from a hold over two initial fixes: the result is
\* that of the new leg, which starts at the second initial fix
C30_Witness ==
  /\ lastOp.op = "updateActiveLegAndPos"
  /\ activePos.valid
  /\ lastOp.arg # INVALID_INDEX_VALUE
  /\ lastOp.arg > 0
  /\ lastOp.arg + 3 = activeLeg
  /\ activeLeg < Len(legs)
  /\ isHold(legs[lastOp.arg + 1].id)
  /\ activeLegResult.status = "ALONG_TRACK"
  /\ activeLegResult # legResult(legs, lastOp.arg, activePos)

\* The segment that ends at 0-based index i has a line distance to p, and
\* for nearestLegResult starts at a leg that is no procedure leg
Eligible(op, i, p) ==
  /\ legResult(legs, i, p).status # "INVALID"
  /\ op = "nearestLegResult" => ~isAnyProcedure(legs[i].id)

\* The lowest index among the eligible segments of least absolute distance
IsLowestNearest(op, i, p) ==
  /\ i \in 1..(Len(legs) - 1)
  /\ Eligible(op, i, p)
  /\ \A j \in 1..(Len(legs) - 1) :
        Eligible(op, j, p)
          => \/ Abs(legResult(legs, j, p).distance) > Abs(legResult(legs, i, p).distance)
             \/ (Abs(legResult(legs, j, p).distance) = Abs(legResult(legs, i, p).distance)
                   /\ j >= i)

HasEligible(op, p) == p.valid /\ \E i \in 1..(Len(legs) - 1) : Eligible(op, i, p)

\* nearestLegResult returns no leg, or a leg whose segment starts at a leg
\* that is no procedure leg
NearestLegResultAnswer ==
  lastOp.op = "nearestLegResult"
    => IF HasEligible(lastOp.op, lastOp.arg)
       THEN /\ IsLowestNearest(lastOp.op, lastOp.ret.index, lastOp.arg)
            /\ ~isAnyProcedure(legs[lastOp.ret.index].id)
            /\ lastOp.ret.status = legResult(legs, lastOp.ret.index, lastOp.arg).status
            /\ lastOp.ret.distance = legResult(legs, lastOp.ret.index, lastOp.arg).distance
       ELSE lastOp.ret = NoNearestLeg

\* C31 as stated: both searches return the lowest index among the eligible
\* segments of least absolute distance; nearestLegResult never returns a
\* segment that starts at a procedure leg and returns the invalid index and
\* classification when there is no eligible segment or the position is
\* invalid.
C31_LowestNearest ==
  /\ NearestLegResultAnswer
  /\ lastOp.op = "nearestAllLegIndex"
       => IF HasEligible(lastOp.op, lastOp.arg)
          THEN IsLowestNearest(lastOp.op, lastOp.ret.index, lastOp.arg)
          ELSE lastOp.ret.index = INVALID_INDEX_VALUE

\* The least absolute distance of the segments is above 100 nm
TooFarAway(p) ==
  \A i \in 1..(Len(legs) - 1) :
    Eligible("nearestAllLegIndex", i, p)
      => Abs(legResult(legs, i, p).distance) > nmToMeter(10000)

\* C31 with the limit of nearestAllLegIndex: as stated, but nearestAllLegIndex
\* returns the invalid index when the nearest segment is more than 100 nm
\* away.
C31_LowestNearestWithin ==
  /\ NearestLegResultAnswer
  /\ lastOp.op = "nearestAllLegIndex"
       => IF HasEligible(lastOp.op, lastOp.arg) /\ ~TooFarAway(lastOp.arg)
          THEN /\ IsLowestNearest(lastOp.op, lastOp.ret.index, lastOp.arg)
               /\ lastOp.ret.cross = legResult(legs, lastOp.ret.index, lastOp.arg).distance
          ELSE /\ lastOp.ret.index = INVALID_INDEX_VALUE
               /\ lastOp.ret.cross = INVALID_DISTANCE_VALUE

\* nearestLegResult answered with a leg although a segment that starts at a
\* procedure leg is as near, at a lower index or nearer
C31_Witness ==
  /\ lastOp.op = "nearestLegResult"
  /\ lastOp.ret.index # INVALID_INDEX_VALUE
  /\ \E j \in 1..(Len(legs) - 1) :
        /\ isAnyProcedure(legs[j].id)
        /\ Abs(legResult(legs, j, lastOp.arg).distance) < Abs(lastOp.ret.distance)

\* C32: getActiveLegIndexCorrected returns the sentinel without an active
\* leg; when the leg behind the active leg exists and is a procedure leg it
\* returns the index of that leg and reports the correction; otherwise it
\* returns the active leg and reports no correction.
C32_Corrected ==
  (lastOp.op = "getActiveLegIndexCorrected")
    => IF activeLeg = INVALID_INDEX_VALUE
       THEN lastOp.ret.index = INVALID_INDEX_VALUE
       ELSE IF activeLeg + 1 < Len(legs) /\ isAnyProcedure(legs[activeLeg + 2].id)
       THEN lastOp.ret = [index |-> activeLeg + 1, corrected |-> TRUE]
       ELSE lastOp.ret = [index |-> activeLeg, corrected |-> FALSE]

\* The distances of the route are those that updateAll computes
Recomputed ==
  /\ legs = updateAll(legs, starLegs, arrivalLegs).legs
  /\ totalDistance = updateAll(legs, starLegs, arrivalLegs).totalDistance

\* getRouteDistances answered for a recomputed route whose active leg is a
\* leg of the route and no missed approach leg
ProgressAnswer ==
  /\ lastOp.op = "getRouteDistances"
  /\ Recomputed
  /\ activeLeg # INVALID_INDEX_VALUE
  /\ activeLeg < Len(legs)
  /\ ~isMissed(legs[activeLeg + 1].id)

\* C33: for a recomputed route with an active leg that is no missed approach
\* leg, the distance from the start and the distance to the destination that
\* getRouteDistances returns add up to the total distance.
C33_SumIsTotal ==
  ProgressAnswer
    => lastOp.ret.out.distFromStart + lastOp.ret.out.distToDest = totalDistance

StartedOffMissed ==
  \/ lastOp.arg = INVALID_INDEX_VALUE
  \/ lastOp.arg >= Len(legs)
  \/ ~isMissed(legs[lastOp.arg + 1].id)

\* C35: while missed approach legs are not displayed, a call of
\* updateActiveLegAndPos that did not start on a missed approach leg does not
\* end on one, whether it advances, seeds or clamps the active leg.
C35_NoHiddenMissed ==
  (/\ lastOp.op = "updateActiveLegAndPos"
   /\ ~shownMissed
   /\ activeLeg # INVALID_INDEX_VALUE
   /\ activeLeg < Len(legs)
   /\ StartedOffMissed)
    => ~isMissed(legs[activeLeg + 1].id)

\* C36: updateProcedureLegs called again right after updateProcedureLegs,
\* with the same stored procedures, leaves the legs, the entries and the three
\* offsets as they are.
C36_Idempotent ==
  [][(lastOp.op = "updateProcedureLegs" /\ lastOp'.op = "updateProcedureLegs")
       => /\ legs' = legs
          /\ entries' = entries
          /\ departureLegsOffset' = departureLegsOffset
          /\ starLegsOffset' = starLegsOffset
          /\ arrivalLegsOffset' = arrivalLegsOffset]_vars

\* A call of updateProcedureLegs on a route that already carried the legs of
\* its stored departure, STAR and arrival procedures
C36_Witness ==
  /\ lastOp.op = "updateProcedureLegs"
  /\ hist.phase = "spliced"
  /\ ~hist.clean
  /\ hist.nLegs = Len(legs)
  /\ hist.nEntries = Len(entries)
  /\ departureLegs # <<>> /\ starLegs # <<>> /\ ~ProcIsEmpty(arrivalLegs)
  /\ Len(legs) = Len(PlainIds(LegIds(legs))) + Len(departureLegs) + Len(starLegs)
                   + ProcSize(arrivalLegs)

\* C37: after Route::copy this route has the active leg, the active leg
\* result and the three procedure offsets of the other route, and its active
\* leg is a leg of its own list.
C37_CopyKeepsActive ==
  (lastOp.op = "copy")
    => /\ activeLeg = other.activeLeg
       /\ activeLegResult = other.activeLegResult
       /\ departureLegsOffset = other.departureLegsOffset
       /\ starLegsOffset = other.starLegsOffset
       /\ arrivalLegsOffset = other.arrivalLegsOffset
       /\ activeLeg = INVALID_INDEX_VALUE \/ activeLeg < Len(legs)

\* The category mask a clear operation passes to eraseProcedureLegs
ClearMask(op) ==
  CASE op = "clearDepartureProcedure" -> PROCEDURE_DEPARTURE
    [] op = "clearStarProcedure" -> PROCEDURE_STAR
    [] op = "clearApproachAndTransProcedure" -> PROCEDURE_ARRIVAL
    [] op = "clearTransitionProcedure" -> PROCEDURE_TRANSITION

\* The elements of a list whose 0-based index is not in the set, in their order
KeepAt(s, removed) ==
  LET F[i \in 0..Len(s)] ==
        IF i = 0 THEN <<>>
        ELSE IF (i - 1) \in removed THEN F[i - 1] ELSE Append(F[i - 1], s[i])
  IN F[Len(s)]

\* C38: the indexes eraseProcedureLegs collects are strictly descending, each
\* one is inside both lists when its removal is applied, each one is the index
\* of a leg of the category and of the entry of that leg, no index of another
\* leg is collected, and the operation leaves exactly the legs and the entries
\* at the other indexes, in their order.
C38_EraseDescending ==
  [][\A op \in CategoryClearOps :
       (lastOp'.op = op /\ HasCategory(op))
         => LET idx == eraseIndexes(legs, ClearMask(op), Len(legs) - 1)
                removed == {idx[k] : k \in 1..Len(idx)}
            IN /\ \A k \in 1..(Len(idx) - 1) : idx[k] > idx[k + 1]
               /\ \A k \in 1..Len(idx) :
                    /\ 0 <= idx[k]
                    /\ idx[k] < Len(legs) - (k - 1)
                    /\ idx[k] < Len(entries) - (k - 1)
                    /\ InCategory(op, legs[idx[k] + 1].id)
                    /\ entries[idx[k] + 1] = legs[idx[k] + 1].id
               /\ \A i \in 1..Len(legs) : ~InCategory(op, legs[i].id) => (i - 1) \notin removed
               /\ LegIds(legs') = KeepAt(LegIds(legs), removed)
               /\ entries' = KeepAt(entries, removed)]_vars

\* C38 witness: clearStarProcedure removed two or more STAR legs from the
\* middle of a route that keeps its departure and approach legs.
C38_Witness ==
  /\ lastOp.op = "clearStarProcedure"
  /\ hist.phase = "spliced" /\ hist.nSpliced - Len(legs) >= 2
  /\ \E i \in 1..Len(legs) : isSid(legs[i].id)
  /\ \E i \in 1..Len(legs) : isApproach(legs[i].id)
  /\ ~\E i \in 1..Len(legs) : isStar(legs[i].id)

====
